---- MODULE Spec2Model ----
(***************************************************************************)
(* Multi-tenant migration runner (fastmigrate_multi.py): the migrations    *)
(* directory, the per-database tracking table and schema effects, and the  *)
(* runner's migrate / rollback / status commands over the host database    *)
(* and the tenant databases (Spec); MigrationFile's parsing of a file name *)
(* and of a file's SQL text (ParseSpec); discover_migrations on a          *)
(* directory as it is on disk (DiscoverSpec); and the Stripe webhook       *)
(* handler's verify_signature (WebhookSpec) and handle_event              *)
(* (HandlerSpec); clean_db_files.py's main (CleanSpec); the runner while   *)
(* the migrations directory is being edited (EditSpec); and two runners    *)
(* migrating one database at the same time (ConcSpec).                     *)
(***************************************************************************)
EXTENDS Integers, Sequences, FiniteSets, TLC

\* ------------------------------------------------------------------ bounds
MaxVersion == 2
MaxFiles == 2
MaxSteps == 2
MaxFaults == 1
MaxStem == 4
MaxContent == 5
MaxDisk == 3
MaxInput == 3

\* ------------------------------------------------------------- Optional[int]
\* Python's None is the empty set, a present value v is {v}.
None == {}
Some(v) == {v}
IsNone(x) == x = {}
Val(x) == CHOOSE v \in x : TRUE

Max2(a, b) == IF a >= b THEN a ELSE b

\* ------------------------------------------------------------- environment
\* os.getenv('POSTGRES_DATABASE'): the host database's name.
HostDb == "saas_host"

\* host_db.t.tenants: the rows of the tenants table, in table order.
\* db is tenant.dbconnection.split('/')[-1].
TenantsTable ==
    << [id |-> "t1", is_active |-> TRUE,  tenant_type |-> "tenant", db |-> "tenant_a"],
       [id |-> "t2", is_active |-> FALSE, tenant_type |-> "tenant", db |-> "tenant_old"],
       [id |-> "t3", is_active |-> TRUE,  tenant_type |-> "system", db |-> "sysdb"],
       [id |-> "t4", is_active |-> TRUE,  tenant_type |-> "tenant", db |-> "acme"] >>

DbNames == {HostDb} \cup {TenantsTable[i].db : i \in 1..Len(TenantsTable)}

\* 'tenant' in db_name.lower()
ContainsTenant(db_name) == db_name \in {"tenant_a", "tenant_old"}

\* ------------------------------------------------------------ MigrationFile
Scopes == <<"host", "tenant", "both">>
ScopeSet == {Scopes[i] : i \in 1..Len(Scopes)}

\* A parsed migration file: version and scope from the path, name from the
\* file name, up / down: whether up_sql / down_sql is a non-empty string.
FileUniverse ==
    { [version |-> v, scope |-> s, name |-> n, up |-> TRUE, down |-> (n = "a")] :
        v \in 1..MaxVersion, s \in ScopeSet, n \in {"a", "b"} }

\* The possible contents of the migrations directory.
Directories == { D \in SUBSET FileUniverse : Cardinality(D) <= MaxFiles }

\* sorted(scope_path.glob('*.sql')): file names order by version digits, then name.
NameKey(f) == f.version * 2 + (IF f.name = "a" THEN 0 ELSE 1)

RECURSIVE SortedByName(_)
SortedByName(S) ==
    IF S = {} THEN <<>>
    ELSE LET m == CHOOSE f \in S : \A g \in S : NameKey(f) <= NameKey(g)
         IN  <<m>> \o SortedByName(S \ {m})

\* list.sort(key=version) is stable: insert x after the last element whose
\* version is <= x.version.
RECURSIVE InsertByVersion(_, _)
InsertByVersion(s, x) ==
    IF s = <<>> THEN <<x>>
    ELSE IF Head(s).version <= x.version
         THEN <<Head(s)>> \o InsertByVersion(Tail(s), x)
         ELSE <<x>> \o s

RECURSIVE SortByVersion(_, _)
SortByVersion(acc, s) ==
    IF s = <<>> THEN acc
    ELSE SortByVersion(InsertByVersion(acc, Head(s)), Tail(s))

RECURSIVE ScanScopes(_, _)
ScanScopes(dir, i) ==
    IF i > Len(Scopes) THEN <<>>
    ELSE SortedByName({f \in dir : f.scope = Scopes[i]}) \o ScanScopes(dir, i + 1)

\* discover_migrations without migrations.sort.
discover_unsorted(dir) == ScanScopes(dir, 1)

\* MigrationRunner.discover_migrations(scope=None)
discover_migrations(dir) == SortByVersion(<<>>, ScanScopes(dir, 1))

RECURSIVE Reverse(_)
Reverse(s) == IF s = <<>> THEN <<>> ELSE Reverse(Tail(s)) \o <<Head(s)>>

\* ----------------------------------------------- MigrationFile: file names
\* A file name is its stem, a sequence of characters, followed by ".sql";
\* a path is the name of the parent directory and the stem.
Digits == {"0", "1"}
StemChars == Digits \cup {"_", "a"}

RECURSIVE SeqsUpTo(_, _)
SeqsUpTo(S, n) ==
    IF n = 0 THEN {<<>>}
    ELSE LET shorter == SeqsUpTo(S, n - 1)
         IN  shorter \cup {Append(q, c) : q \in {r \in shorter : Len(r) = n - 1}, c \in S}

Stems == SeqsUpTo(StemChars, MaxStem)

\* The length of the longest run of characters of S at the start of s.
RECURSIVE RunLength(_, _)
RunLength(s, S) ==
    IF s # <<>> /\ Head(s) \in S THEN 1 + RunLength(Tail(s), S) ELSE 0

DigitValue(c) == IF c = "0" THEN 0 ELSE 1

\* int(match.group(1)): the decimal value of a run of digits.
RECURSIVE int(_, _)
int(acc, digits) ==
    IF digits = <<>> THEN acc
    ELSE int(acc * 10 + DigitValue(Head(digits)), Tail(digits))

\* re.match(r'^(\d+)_', name): the digits matched, or <<>> when nothing matches.
VersionMatch(stem) ==
    LET n == RunLength(stem, Digits)
    IN  IF n >= 1 /\ Len(stem) > n /\ stem[n + 1] = "_" THEN SubSeq(stem, 1, n) ELSE <<>>

\* _extract_name that always takes filepath.stem.
extract_name_stem(stem) == stem

\* _extract_name: re.match(r'^\d+_(.+)\.sql$', name) needs one character at
\* least between the underscore and ".sql"; else filepath.stem.
extract_name(stem) ==
    LET n == Len(VersionMatch(stem))
    IN  IF n >= 1 /\ Len(stem) >= n + 2 THEN SubSeq(stem, n + 2, Len(stem)) ELSE stem

\* _extract_scope
extract_scope(parent_dir) ==
    IF parent_dir \in {"host", "tenant", "both"} THEN parent_dir ELSE "unknown"

\* ------------------------------------------------ MigrationFile: SQL text
\* A file's content is a sequence of tokens: "U" a text that matches
\* --\s*=+\s*UP\s*=+, "D" one that matches --\s*=+\s*DOWN\s*=+, "n" a newline,
\* "s" another whitespace character, "x" a character of SQL.
Tokens == {"U", "D", "n", "s", "x"}
Whitespace == {"n", "s"}

Contents == SeqsUpTo(Tokens, MaxContent)

\* str.strip()
RECURSIVE StripLeft(_)
StripLeft(s) == IF s # <<>> /\ Head(s) \in Whitespace THEN StripLeft(Tail(s)) ELSE s

RECURSIVE StripRight(_)
StripRight(s) ==
    IF s # <<>> /\ s[Len(s)] \in Whitespace THEN StripRight(SubSeq(s, 1, Len(s) - 1)) ELSE s

Strip(s) == StripRight(StripLeft(s))

\* \s*\n after a marker at position i: the whitespace run that follows is
\* taken whole and given back down to its last newline. The position after
\* that newline, or 0 when the run holds no newline (no match at i).
AfterMarker(text, i) ==
    LET run == RunLength(SubSeq(text, i + 1, Len(text)), Whitespace)
        newlines == {j \in (i + 1)..(i + run) : text[j] = "n"}
    IN  IF newlines = {} THEN 0
        ELSE (CHOOSE j \in newlines : \A k \in newlines : k <= j) + 1

\* re.search: the leftmost position where marker and \s*\n match, or 0.
SearchMarker(text, marker) ==
    LET at == {i \in 1..Len(text) : text[i] = marker /\ AfterMarker(text, i) # 0}
    IN  IF at = {} THEN 0 ELSE CHOOSE i \in at : \A k \in at : i <= k

\* $ without re.MULTILINE: the end of the text, or just before a newline
\* that ends it.
AtDollar(text, e) ==
    \/ e = Len(text) + 1
    \/ e = Len(text) /\ text[e] = "n"

\* (.*?)(?=--\s*=+\s*DOWN\s*=+|$) from position b: the shortest group after
\* which a DOWN text or $ follows. The position after the group.
UpGroupEnd(text, b) ==
    LET stops == {e \in b..(Len(text) + 1) :
                     \/ AtDollar(text, e)
                     \/ e <= Len(text) /\ text[e] = "D"}
    IN  CHOOSE e \in stops : \A k \in stops : e <= k

\* (.*?)$ from position b. The position after the group.
DownGroupEnd(text, b) ==
    LET stops == {e \in b..(Len(text) + 1) : AtDollar(text, e)}
    IN  CHOOSE e \in stops : \A k \in stops : e <= k

\* _parse_sql: up_sql and down_sql, and for each the span of the content its
\* group was matched on (from, to; the whole content for an up_sql without
\* match, from > to for an empty group or no match).
parse_sql(text) ==
    LET up_at == SearchMarker(text, "U")
        down_at == SearchMarker(text, "D")
        up_from == AfterMarker(text, up_at)
        up_to == UpGroupEnd(text, up_from) - 1
        down_from == AfterMarker(text, down_at)
        down_to == DownGroupEnd(text, down_from) - 1
    IN  [up_sql |-> IF up_at # 0 THEN Strip(SubSeq(text, up_from, up_to)) ELSE Strip(text),
         down_sql |-> IF down_at # 0 THEN Strip(SubSeq(text, down_from, down_to)) ELSE <<>>,
         up_span |-> IF up_at # 0 THEN <<up_from, up_to>> ELSE <<1, Len(text)>>,
         down_span |-> IF down_at # 0 THEN <<down_from, down_to>> ELSE <<1, 0>>]

\* MigrationFile(filepath): the object built, or raised when
\* _extract_version raises ValueError.
NoMigration == [state |-> "none"]

MigrationFile(path, text) ==
    LET digits == VersionMatch(path.stem)
        sql == parse_sql(text)
    IN  IF digits = <<>> THEN [state |-> "raised"]
        ELSE [state |-> "built",
              filepath |-> path,
              version |-> int(0, digits),
              name |-> extract_name(path.stem),
              scope |-> extract_scope(path.parent),
              up_sql |-> sql.up_sql, down_sql |-> sql.down_sql,
              up_span |-> sql.up_span, down_span |-> sql.down_span]

\* ------------------------------------------- discover_migrations on disk
\* The migrations directory on disk: the scope directories that exist and
\* the *.sql files in them, each a path; every file reads as FileText.
FileText == <<"x">>

\* ord() of a character of a stem; "." is less than all of them.
CharCode(c) == CASE c = "0" -> 48 [] c = "1" -> 49 [] c = "_" -> 95 [] OTHER -> 97

\* a.sql < b.sql as strings
RECURSIVE NameLess(_, _)
NameLess(a, b) ==
    IF a = <<>> THEN b # <<>>
    ELSE IF b = <<>> THEN FALSE
    ELSE IF Head(a) = Head(b) THEN NameLess(Tail(a), Tail(b))
    ELSE CharCode(Head(a)) < CharCode(Head(b))

\* sorted(scope_path.glob('*.sql')), S the paths of one directory
RECURSIVE SortedGlob(_)
SortedGlob(S) ==
    IF S = {} THEN <<>>
    ELSE LET m == CHOOSE f \in S : \A g \in S \ {f} : NameLess(f.stem, g.stem)
         IN  <<m>> \o SortedGlob(S \ {m})

\* The loop over one directory's files, given up at the first file whose
\* MigrationFile raises.
RECURSIVE ScanDirStopsAtInvalid(_)
ScanDirStopsAtInvalid(sql_files) ==
    IF sql_files = <<>> THEN <<>>
    ELSE LET m == MigrationFile(Head(sql_files), FileText)
         IN  IF m.state = "built" THEN <<m>> \o ScanDirStopsAtInvalid(Tail(sql_files))
             ELSE <<>>

\* for sql_file in ...: try: migrations.append(MigrationFile(sql_file));
\* except Exception: print and go on.
RECURSIVE ScanDir(_)
ScanDir(sql_files) ==
    IF sql_files = <<>> THEN <<>>
    ELSE LET m == MigrationFile(Head(sql_files), FileText)
         IN  (IF m.state = "built" THEN <<m>> ELSE <<>>) \o ScanDir(Tail(sql_files))

\* for scope_dir in scopes: a directory that does not exist is passed over.
RECURSIVE ScanRoot(_, _, _)
ScanRoot(on_disk, scopes, i) ==
    IF i > Len(scopes) THEN <<>>
    ELSE (IF scopes[i] \notin on_disk.exists THEN <<>>
          ELSE ScanDir(SortedGlob({f \in on_disk.paths : f.parent = scopes[i]})))
         \o ScanRoot(on_disk, scopes, i + 1)

\* MigrationRunner.discover_migrations(scope) on the directory on disk
discover(on_disk, scope) ==
    LET scopes == IF ~IsNone(scope) /\ Val(scope) # "" THEN <<Val(scope)>> ELSE Scopes
    IN  SortByVersion(<<>>, ScanRoot(on_disk, scopes, 1))

NoDiscovery == [state |-> "none"]

\* ------------------------------------------- stripe_webhooks.verify_signature
\* A payload: which body it is, whether its bytes decode as UTF-8 and
\* whether the text is JSON. A Stripe-Signature header: whether one was sent
\* (a non-empty string), whether it has the t=...,v1=... form, the body and
\* the secret its signature was computed with, and whether its timestamp is
\* within the tolerance.
Bodies == {"p1", "p2"}
Secrets == {"whsec_1", "whsec_2"}

Payloads ==
    {b \in [id : Bodies, utf8 : BOOLEAN, json : BOOLEAN] : b.json => b.utf8}

NoHeader ==
    [given |-> FALSE, wellformed |-> FALSE, body |-> "p1", key |-> "whsec_1", fresh |-> FALSE]

Headers ==
    {NoHeader} \cup
    {h \in [given : {TRUE}, wellformed : BOOLEAN, body : Bodies, key : Secrets,
            fresh : BOOLEAN] :
        ~h.wellformed => (h.body = "p1" /\ h.key = "whsec_1" /\ ~h.fresh)}

NotCalled == [state |-> "none"]

\* IS_DEVELOPMENT = config.environment == "development"
IS_DEVELOPMENT(env) == env = "development"

\* The header carries a current signature of this payload under this secret.
SignatureMatches(body, header, secret) ==
    /\ header.given /\ header.wellformed /\ header.fresh
    /\ ~IsNone(secret)
    /\ header.key = Val(secret)
    /\ header.body = body.id

\* stripe.Webhook.construct_event(payload, sig_header, secret): the ways the
\* call can end. "event" when the payload decodes, the signature matches
\* and the text is JSON; else an exception for a check that fails:
\* ValueError (UnicodeDecodeError and JSONDecodeError are ValueErrors) for
\* the payload, SignatureVerificationError for the header; with no secret
\* (None) the library cannot compute a signature and may end in an error of
\* another type.
construct_event(body, header, secret) ==
    IF body.utf8 /\ body.json /\ SignatureMatches(body, header, secret) THEN {"event"}
    ELSE (IF ~body.utf8 \/ ~body.json THEN {"ValueError"} ELSE {})
         \cup (IF ~SignatureMatches(body, header, secret)
               THEN {"SignatureVerificationError"} ELSE {})
         \cup (IF IsNone(secret) THEN {"OtherError"} ELSE {})

\* The test before the development branch, without IS_DEVELOPMENT.
skips_whenever_unconfigured(env, secret, header) ==
    IsNone(secret) \/ ~header.given

\* if IS_DEVELOPMENT and (not STRIPE_WEBHOOK_SECRET or not sig_header)
skips_verification(env, secret, header) ==
    IS_DEVELOPMENT(env) /\ (IsNone(secret) \/ ~header.given)

\* ------------------------------------------------------------ version store
\* A database: whether _migration_versions exists, its rows in insertion
\* order, and the committed effects of migration SQL in execution order.
EmptyDb == [table |-> FALSE, rows |-> <<>>, effects |-> <<>>]

Row(m, direction) ==
    [version |-> m.version, name |-> m.name, scope |-> m.scope, direction |-> direction]

Effect(m, direction) == [file |-> m, direction |-> direction]

\* SELECT MIN(version) in place of MAX(version).
MinUpVersion(rows) ==
    LET ups == {rows[i].version : i \in {j \in 1..Len(rows) : rows[j].direction = "up"}}
    IN  IF ups = {} THEN None ELSE Some(CHOOSE v \in ups : \A w \in ups : v <= w)

\* SELECT MAX(version) FROM _migration_versions WHERE direction = 'up'
MaxUpVersion(rows) ==
    LET ups == {rows[i].version : i \in {j \in 1..Len(rows) : rows[j].direction = "up"}}
    IN  IF ups = {} THEN None ELSE Some(CHOOSE v \in ups : \A w \in ups : w <= v)

\* get_current_version, the query having succeeded
get_current_version(d) ==
    LET result == MaxUpVersion(d.rows)
    IN  IF ~IsNone(result) THEN Val(result) ELSE 0

\* A tracking table without its primary key.
NoPrimaryKey(rows, r) == FALSE

\* PRIMARY KEY (version, direction)
PrimaryKeyConflict(rows, r) ==
    \E i \in 1..Len(rows) : rows[i].version = r.version /\ rows[i].direction = r.direction

\* ------------------------------------------------------------------- state
VARIABLES
    files,      \* the migrations directory: a set of migration files
    db,         \* database name -> its committed state
    pc,         \* where the runner is
    args,       \* the command line: command, dry_run, to, steps
    phase,      \* which part of *_all is running: "host", then "tenants",
                \* or "notenants" when the lookup gave no tenant database
    queue,      \* databases *_all still has to process in this phase
    conn,       \* the connection of the current *_database call
    call,       \* locals and outcome of the current *_database call
    results,    \* outcomes of the *_database calls of this run, in order
    last,       \* database name -> summary of the previous call on it
    latest_version, \* show_status: the highest discovered version
    faults,     \* injected failures so far
    filepath,   \* MigrationFile(filepath): parent directory and stem
    content,    \* the text of the file at filepath
    parsed,     \* the MigrationFile built from filepath, or that it raised
    root,       \* the migrations directory as it is on disk
    scope_arg,  \* discover_migrations(scope): its argument
    discovered, \* what discover_migrations returned
    environment,            \* config.environment
    STRIPE_WEBHOOK_SECRET,  \* os.getenv("CONFIG_STRIPE_WEBHOOKSECRET")
    payload,                \* verify_signature(payload, sig_header)
    sig_header,
    returned,               \* what verify_signature returned, or that it raised
    tree,       \* clean_db_files: the files under the working directory
    stdin,      \* what input() will read: a line, or EOF, or an interrupt
    cleaner,     \* clean_db_files.main(): its position, locals and return value
    event,          \* handle_event(event): the Stripe event
    subscriptions,  \* the subscriptions table: the Stripe ids it holds
    handled,         \* what handle_event did and returned
    snapshot,        \* the migrations directory as it was when main() began
    workers         \* two runner processes migrating one database at once

runner_vars == <<files, db, pc, args, phase, queue, conn, call, results, last,
                 latest_version, faults>>
parser_vars == <<filepath, content, parsed>>
discover_vars == <<root, scope_arg, discovered>>
webhook_vars == <<environment, STRIPE_WEBHOOK_SECRET, payload, sig_header, returned>>
clean_vars == <<tree, stdin, cleaner>>
handler_vars == <<event, subscriptions, handled>>
edit_vars == <<snapshot>>
conc_vars == <<workers>>
others ==
    <<parser_vars, discover_vars, webhook_vars, clean_vars, handler_vars, edit_vars,
      conc_vars>>

vars == <<runner_vars, others>>

NoConn == [open |-> FALSE, aborted |-> FALSE, txn_effects |-> <<>>, txn_rows |-> <<>>]
NewConn == [open |-> TRUE, aborted |-> FALSE, txn_effects |-> <<>>, txn_rows |-> <<>>]

NoArgs == [command |-> "none", dry_run |-> FALSE, to |-> None, steps |-> 1]

\* current_version, target, pending: the locals of migrate_database and
\* rollback_database (pending is what the for loop still has to visit);
\* ret, report: the value returned and the line printed. selected (the list
\* the loop started with), trail (the apply_migration calls and dry-run
\* lines so far, each "dry", "running", "applied" or "failed"), wrote
\* (commits so far), rows_before and raised_at (the statement of
\* apply_migration that raised) only observe.
NoCall ==
    [db |-> HostDb, current_version |-> 0, target |-> None, pending |-> <<>>,
     selected |-> <<>>, trail |-> <<>>, wrote |-> 0, rows_before |-> 0,
     pending_count |-> 0, ret |-> FALSE, report |-> "none", raised_at |-> "none"]

\* What is remembered of the previous call on a database: whether it was a
\* migrate_database without target version, not a dry run, that returned
\* True (migrated), and whether the tracking table was empty when it began.
NoLast == [migrated |-> FALSE, fresh |-> FALSE]

Targets == {None} \cup {Some(v) : v \in 0..MaxVersion}

\* Nothing is being parsed or discovered on its own.
ParserIdle ==
    /\ filepath = [parent |-> "host", stem |-> <<"1", "_", "a">>]
    /\ content = <<"x">>
    /\ parsed = NoMigration

DiscoverIdle ==
    /\ root = [exists |-> {}, paths |-> {}]
    /\ scope_arg = None
    /\ discovered = NoDiscovery

WebhookIdle ==
    /\ environment = "production"
    /\ STRIPE_WEBHOOK_SECRET = None
    /\ payload = [id |-> "p1", utf8 |-> TRUE, json |-> TRUE]
    /\ sig_header = NoHeader
    /\ returned = NotCalled

\* clean_db_files.main() has not been started. before (the files when main
\* began), prompted (input() was called) and log (the os.remove calls, each
\* "removed" or "failed") only observe.
NotStarted ==
    [pc |-> "start", db_files |-> <<>>, remaining |-> <<>>, removed_count |-> 0,
     ret |-> None, prompted |-> FALSE, log |-> <<>>, before |-> {}]

CleanerIdle ==
    /\ tree = {}
    /\ stdin = [kind |-> "EOFError", text |-> <<>>]
    /\ cleaner = NotStarted

\* handle_event has not been called. invoked (the handlers called), inner
\* (what the handler returned or that it raised), issued (the queries sent
\* to the database, in order) and before (the table at the call) only
\* observe.
NotHandled ==
    [state |-> "none", status |-> "none", message |-> "none", invoked |-> <<>>,
     inner |-> "none", issued |-> <<>>, before |-> {}]

HandlerIdle ==
    /\ event = [type |-> None, tenant_id |-> None, user_email |-> None,
                subscription |-> None]
    /\ subscriptions = {}
    /\ handled = NotHandled

\* The migrations directory is as it was when the run began (or no run has
\* begun). snapshot only observes.
Unedited == snapshot = files

\* The two runner processes of a concurrent migrate.
Runners == {"r1", "r2"}

\* A runner process in migrate_database on the host database: its position,
\* the locals current_version and pending, its connection's open
\* transaction and what it returned; applied (the files it committed) and
\* raised_at only observe.
Worker(at) ==
    [pc |-> at, current_version |-> 0, pending |-> <<>>, txn_effects |-> <<>>,
     txn_rows |-> <<>>, applied |-> <<>>, ret |-> FALSE, raised_at |-> "none"]

\* No concurrent runner processes.
WorkersIdle == workers = [r \in Runners |-> Worker("off")]

RunnerStart ==
    /\ db = [d \in DbNames |-> EmptyDb]
    /\ pc = "idle"
    /\ args = NoArgs
    /\ phase = "host"
    /\ queue = <<>>
    /\ conn = NoConn
    /\ call = NoCall
    /\ results = <<>>
    /\ last = [d \in DbNames |-> NoLast]
    /\ latest_version = 0
    /\ faults = 0

Init ==
    /\ files \in Directories
    /\ RunnerStart
    /\ WorkersIdle
    /\ Unedited
    /\ HandlerIdle
    /\ CleanerIdle
    /\ ParserIdle
    /\ DiscoverIdle
    /\ WebhookIdle

\* ------------------------------------------------------- runner: helpers
\* len(migrations) in place of the highest version.
LatestVersionCount(migrations) == Len(migrations)

\* max([m.version for m in migrations]) if migrations else 0
LatestVersion(migrations) ==
    IF migrations = <<>> THEN 0
    ELSE LET vs == {migrations[i].version : i \in 1..Len(migrations)}
         IN  CHOOSE v \in vs : \A w \in vs : w <= v

\* Python truthiness of an Optional[int]: None and 0 are false.
Truthy(x) == ~IsNone(x) /\ Val(x) # 0

\* migrate_database: the migrations to apply.
PendingUp(migrations, current_version, target_version) ==
    LET pending == SelectSeq(migrations, LAMBDA m : m.version > current_version)
    IN  IF Truthy(target_version)
        THEN SelectSeq(pending, LAMBDA m : m.version <= Val(target_version))
        ELSE pending

\* migrate_database: the scope compatibility check of the loop.
ScopeSkipped(migration, db_name) ==
    \/ migration.scope = "host" /\ ContainsTenant(db_name)
    \/ migration.scope = "tenant" /\ db_name = HostDb

\* rollback_database: the target version.
RollbackTarget(current_version, steps, target_version) ==
    IF IsNone(target_version) THEN Max2(0, current_version - steps) ELSE Val(target_version)

\* The selection without to_rollback.reverse().
ToRollbackUnreversed(migrations, current_version, target_version) ==
    SelectSeq(migrations,
        LAMBDA m : target_version < m.version /\ m.version <= current_version)

\* rollback_database: the migrations to roll back, highest first.
ToRollback(migrations, current_version, target_version) ==
    Reverse(SelectSeq(migrations,
        LAMBDA m : target_version < m.version /\ m.version <= current_version))

\* The lookup without its is_active and tenant_type test.
all_tenant_rows == [i \in 1..Len(TenantsTable) |-> TenantsTable[i].db]

\* get_all_tenant_databases, the lookup having succeeded.
get_all_tenant_databases ==
    LET kept == SelectSeq(TenantsTable,
                    LAMBDA tenant : tenant.is_active /\ tenant.tenant_type = "tenant")
    IN  [i \in 1..Len(kept) |-> kept[i].db]

\* _ensure_migration_table: CREATE TABLE IF NOT EXISTS, committed at once.
ensure_migration_table(d) == [d EXCEPT !.table = TRUE]

\* conn.commit(): the transaction's statements become the database's state.
commit(d, c) == [d EXCEPT !.rows = @ \o c.txn_rows, !.effects = @ \o c.txn_effects]

\* A rollback that does not undo the migration SQL (the SQL having run
\* outside the transaction that holds the tracking row).
rollback_keeps_sql(d, c) == [d EXCEPT !.effects = @ \o c.txn_effects]

\* conn.rollback(): the transaction's statements are discarded.
rollback(d, c) == d

\* --------------------------------------------------------------------- main
\* main(): parse the command line, build the runner, dispatch the command.
\* --steps defaults to 1; --to defaults to None.
Main ==
    /\ pc = "idle"
    /\ \E command \in {"migrate", "rollback", "status"}, dry \in BOOLEAN,
          to \in Targets, steps \in 1..MaxSteps :
          /\ command = "status" => (~dry /\ IsNone(to) /\ steps = 1)
          /\ command = "migrate" => steps = 1
          /\ ~IsNone(to) => steps = 1
          /\ args' = [command |-> command, dry_run |-> dry, to |-> to, steps |-> steps]
    /\ pc' = "begin"
    /\ phase' = "host"
    /\ queue' = <<HostDb>>
    /\ results' = <<>>
    /\ call' = NoCall
    /\ latest_version' =
          IF args'.command = "status" THEN LatestVersion(discover_migrations(files)) ELSE 0
    /\ snapshot' = files
    /\ UNCHANGED <<parser_vars, discover_vars, webhook_vars, clean_vars, handler_vars,
                   conc_vars, files, db, conn, last, faults>>

\* ------------------------------------------------------ call bookkeeping
\* The *_database call ends with this return value and printed line.
Returns(c, ret, report) == [c EXCEPT !.ret = ret, !.report = report, !.pending = <<>>]

StartCall(db_name) ==
    [NoCall EXCEPT !.db = db_name, !.rows_before = Len(db[db_name].rows)]

Direction == IF args.command = "migrate" THEN "up" ELSE "down"

Attempt(migration, direction, kind) ==
    [file |-> migration, direction |-> direction, kind |-> kind]

\* ------------------------------------------------------- migrate_database
\* From _get_db_connection to the "Already up to date" return or the start of
\* the loop. A failure of the connection, of _ensure_migration_table or of
\* discover_migrations reaches the outer except (return False, no close);
\* a failure inside get_current_version is swallowed there (version 0) and
\* leaves the connection's transaction aborted.
MigrateBegin ==
    /\ pc = "begin"
    /\ args.command = "migrate"
    /\ \E fault \in {"none", "connect", "ensure", "query", "discover"} :
        LET db_name == Head(queue)
            current_version ==
                IF fault = "query" THEN 0 ELSE get_current_version(db[db_name])
            pending == PendingUp(discover_migrations(files), current_version, args.to)
            start == [StartCall(db_name) EXCEPT !.current_version = current_version]
            raised == fault \in {"connect", "ensure", "discover"}
        IN  /\ fault # "none" => faults < MaxFaults
            /\ faults' = IF fault = "none" THEN faults ELSE faults + 1
            /\ db' = IF fault \in {"connect", "ensure"} THEN db
                     ELSE [db EXCEPT ![db_name] = ensure_migration_table(@)]
            /\ conn' = CASE fault = "connect" -> NoConn
                         [] fault \in {"ensure", "discover"} -> NewConn
                         [] pending = <<>> -> NoConn
                         [] OTHER -> [NewConn EXCEPT !.aborted = (fault = "query")]
            /\ call' = CASE raised -> Returns(StartCall(db_name), FALSE, "dberror")
                         [] pending = <<>> -> Returns(start, TRUE, "uptodate")
                         [] OTHER -> [start EXCEPT !.pending = pending, !.selected = pending]
            /\ pc' = IF raised \/ pending = <<>> THEN "return" ELSE "loop"
    /\ UNCHANGED <<others, files, args, phase, queue, results, last, latest_version>>

\* The loop is over: conn.close(); return True.
MigrateDone ==
    /\ pc = "loop"
    /\ args.command = "migrate"
    /\ call.pending = <<>>
    /\ conn' = NoConn
    /\ call' = Returns(call, TRUE, "migrated")
    /\ pc' = "return"
    /\ UNCHANGED <<others, files, db, args, phase, queue, results, last,
                   latest_version, faults>>

\* The scope check says continue.
MigrateSkip ==
    /\ pc = "loop"
    /\ args.command = "migrate"
    /\ call.pending # <<>>
    /\ ScopeSkipped(Head(call.pending), call.db)
    /\ call' = [call EXCEPT !.pending = Tail(@)]
    /\ UNCHANGED <<others, files, db, pc, args, phase, queue, conn, results, last,
                   latest_version, faults>>

\* [DRY RUN] Would apply
MigrateDryRun ==
    /\ pc = "loop"
    /\ args.command = "migrate"
    /\ call.pending # <<>>
    /\ ~ScopeSkipped(Head(call.pending), call.db)
    /\ args.dry_run
    /\ call' = [call EXCEPT !.pending = Tail(@),
                            !.trail = Append(@, Attempt(Head(call.pending), "up", "dry"))]
    /\ UNCHANGED <<others, files, db, pc, args, phase, queue, conn, results, last,
                   latest_version, faults>>

\* --------------------------------------------------------- apply_migration
\* The caller's except around apply_migration: print Failed, conn.close(),
\* return False. d is the database's state after apply_migration raised.
ApplyFailed(d, stage) ==
    /\ db' = [db EXCEPT ![call.db] = d]
    /\ conn' = NoConn
    /\ call' = Returns([call EXCEPT !.trail =
                          Append(@, Attempt(Head(call.pending), Direction, "failed")),
                                    !.raised_at = stage],
                       FALSE, "failed")
    /\ pc' = "return"

\* cursor.execute(sql) inside the try: the SQL joins the connection's
\* transaction, or fails (always, once the transaction is aborted) and the
\* except rolls back and raises.
ExecuteSql(migration, direction) ==
    \E ok \in BOOLEAN :
        /\ ok => ~conn.aborted
        /\ ~ok => (conn.aborted \/ faults < MaxFaults)
        /\ faults' = IF ok \/ conn.aborted THEN faults ELSE faults + 1
        /\ IF ok
           THEN /\ conn' = [conn EXCEPT !.txn_effects =
                               Append(@, Effect(migration, direction))]
                /\ call' = [call EXCEPT !.trail =
                               Append(@, Attempt(migration, direction, "running"))]
                /\ pc' = "executed"
                /\ UNCHANGED db
           ELSE ApplyFailed(rollback(db[call.db], conn), "execute")

\* apply_migration without its "if not sql: raise ValueError".
ApplyExecuteUnguarded(migration, direction) == ExecuteSql(migration, direction)

\* apply_migration up to cursor.execute(sql): ValueError when the section is
\* empty (raised before the try, so without conn.rollback()); else the SQL
\* runs inside the connection's transaction, or fails and is rolled back.
ApplyExecute(migration, direction) ==
    LET sql == IF direction = "up" THEN migration.up ELSE migration.down
    IN  IF ~sql
        THEN /\ ApplyFailed(db[call.db], "section")
             /\ UNCHANGED faults
        ELSE ExecuteSql(migration, direction)

\* Not skipped, not a dry run: apply_migration(conn, migration, 'up').
MigrateApply ==
    /\ pc = "loop"
    /\ args.command = "migrate"
    /\ call.pending # <<>>
    /\ ~ScopeSkipped(Head(call.pending), call.db)
    /\ ~args.dry_run
    /\ ApplyExecute(Head(call.pending), "up")
    /\ UNCHANGED <<others, files, args, phase, queue, results, last, latest_version>>

\* The except of apply_migration when the call is already in the trail.
ApplyRaised(stage) ==
    /\ db' = [db EXCEPT ![call.db] = rollback(@, conn)]
    /\ conn' = NoConn
    /\ call' = Returns([call EXCEPT !.trail[Len(call.trail)].kind = "failed",
                                    !.raised_at = stage],
                       FALSE, "failed")
    /\ pc' = "return"

\* INSERT INTO _migration_versions: fails on the primary key, or otherwise.
ApplyInsert ==
    /\ pc = "executed"
    /\ LET r == Row(Head(call.pending), Direction)
           conflict == PrimaryKeyConflict(db[call.db].rows \o conn.txn_rows, r)
       IN  \E ok \in BOOLEAN :
           /\ ok => ~conflict
           /\ ~ok => (conflict \/ faults < MaxFaults)
           /\ faults' = IF ok \/ conflict THEN faults ELSE faults + 1
           /\ IF ok
              THEN /\ conn' = [conn EXCEPT !.txn_rows = Append(@, r)]
                   /\ pc' = "inserted"
                   /\ UNCHANGED <<db, call>>
              ELSE ApplyRaised("insert")
    /\ UNCHANGED <<others, files, args, phase, queue, results, last, latest_version>>

\* conn.commit(); return True, and the caller's loop moves on.
ApplyCommit ==
    /\ pc = "inserted"
    /\ \E ok \in BOOLEAN :
           /\ ~ok => faults < MaxFaults
           /\ faults' = IF ok THEN faults ELSE faults + 1
           /\ IF ok
              THEN /\ db' = [db EXCEPT ![call.db] = commit(@, conn)]
                   /\ conn' = [conn EXCEPT !.txn_effects = <<>>, !.txn_rows = <<>>]
                   /\ call' = [call EXCEPT !.pending = Tail(@), !.wrote = @ + 1,
                                           !.trail[Len(call.trail)].kind = "applied"]
                   /\ pc' = "loop"
              ELSE ApplyRaised("commit")
    /\ UNCHANGED <<others, files, args, phase, queue, results, last, latest_version>>

\* ------------------------------------------------------ rollback_database
\* From _get_db_connection to one of the early returns or the start of the
\* loop. discover_migrations is only reached past the two early returns.
RollbackBegin ==
    /\ pc = "begin"
    /\ args.command = "rollback"
    /\ \E fault \in {"none", "connect", "ensure", "query", "discover"} :
        LET db_name == Head(queue)
            current_version ==
                IF fault = "query" THEN 0 ELSE get_current_version(db[db_name])
            target_version == RollbackTarget(current_version, args.steps, args.to)
            early == current_version = 0 \/ target_version >= current_version
            to_rollback == ToRollback(discover_migrations(files), current_version,
                                      target_version)
            start == [StartCall(db_name) EXCEPT !.current_version = current_version,
                                                !.target = Some(target_version)]
            raised == fault \in {"connect", "ensure"} \/ (fault = "discover" /\ ~early)
        IN  /\ fault # "none" => faults < MaxFaults
            /\ fault = "discover" => ~early
            /\ faults' = IF fault = "none" THEN faults ELSE faults + 1
            /\ db' = IF fault \in {"connect", "ensure"} THEN db
                     ELSE [db EXCEPT ![db_name] = ensure_migration_table(@)]
            /\ conn' = CASE fault = "connect" -> NoConn
                         [] raised -> NewConn
                         [] early -> NoConn
                         [] OTHER -> NewConn
            /\ call' = CASE raised -> Returns(StartCall(db_name), FALSE, "dberror")
                         [] current_version = 0 -> Returns(start, TRUE, "norollback")
                         [] early -> Returns(start, TRUE, "attarget")
                         [] OTHER -> [start EXCEPT !.pending = to_rollback,
                                                   !.selected = to_rollback]
            /\ pc' = IF raised \/ early THEN "return" ELSE "loop"
    /\ UNCHANGED <<others, files, args, phase, queue, results, last, latest_version>>

\* The loop is over: conn.close(); return True.
RollbackDone ==
    /\ pc = "loop"
    /\ args.command = "rollback"
    /\ call.pending = <<>>
    /\ conn' = NoConn
    /\ call' = Returns(call, TRUE, "rolledback")
    /\ pc' = "return"
    /\ UNCHANGED <<others, files, db, args, phase, queue, results, last,
                   latest_version, faults>>

\* [DRY RUN] Would rollback
RollbackDryRun ==
    /\ pc = "loop"
    /\ args.command = "rollback"
    /\ call.pending # <<>>
    /\ args.dry_run
    /\ call' = [call EXCEPT !.pending = Tail(@),
                            !.trail = Append(@, Attempt(Head(call.pending), "down", "dry"))]
    /\ UNCHANGED <<others, files, db, pc, args, phase, queue, conn, results, last,
                   latest_version, faults>>

\* The loop body without its dry-run branch.
RollbackApplyInDryRun ==
    /\ pc = "loop"
    /\ args.command = "rollback"
    /\ call.pending # <<>>
    /\ ApplyExecute(Head(call.pending), "down")
    /\ UNCHANGED <<others, files, args, phase, queue, results, last, latest_version>>

\* apply_migration(conn, migration, 'down')
RollbackApply ==
    /\ pc = "loop"
    /\ args.command = "rollback"
    /\ call.pending # <<>>
    /\ ~args.dry_run
    /\ ApplyExecute(Head(call.pending), "down")
    /\ UNCHANGED <<others, files, args, phase, queue, results, last, latest_version>>

\* ------------------------------------------------------------- show_status
\* One database's try block: connect, ensure the table, read the version,
\* print current and pending, close. Any exception prints an error line
\* (no close); a failed version query is swallowed as version 0.
StatusDatabase ==
    /\ pc = "begin"
    /\ args.command = "status"
    /\ \E fault \in {"none", "connect", "ensure", "query"} :
        LET db_name == Head(queue)
            current == IF fault = "query" THEN 0 ELSE get_current_version(db[db_name])
            raised == fault \in {"connect", "ensure"}
        IN  /\ fault # "none" => faults < MaxFaults
            /\ faults' = IF fault = "none" THEN faults ELSE faults + 1
            /\ db' = IF raised THEN db
                     ELSE [db EXCEPT ![db_name] = ensure_migration_table(@)]
            /\ conn' = IF fault = "ensure" THEN NewConn ELSE NoConn
            /\ call' = IF raised
                       THEN Returns(StartCall(db_name), FALSE, "error")
                       ELSE Returns([StartCall(db_name) EXCEPT
                                        !.current_version = current,
                                        !.pending_count = latest_version - current],
                                    TRUE, "status")
            /\ pc' = "return"
    /\ UNCHANGED <<others, files, args, phase, queue, results, last, latest_version>>

\* ------------------------------------- migrate_all / rollback_all / status
Summary ==
    LET migrated == args.command = "migrate" /\ ~args.dry_run /\ IsNone(args.to) /\ call.ret
    IN  [migrated |-> migrated, fresh |-> migrated /\ call.rows_before = 0]

\* A *_all that gives up at the first database that returned False.
ReturnStopsAtFailure ==
    /\ pc = "return"
    /\ results' = Append(results, [db |-> call.db, ret |-> call.ret,
                                    report |-> call.report, raised_at |-> call.raised_at])
    /\ last' = [last EXCEPT ![call.db] = Summary]
    /\ conn' = NoConn
    /\ call' = NoCall
    /\ queue' = Tail(queue)
    /\ pc' = IF ~call.ret THEN "complete"
             ELSE IF phase = "host" THEN "lookup"
             ELSE IF Tail(queue) = <<>> THEN "complete" ELSE "begin"
    /\ UNCHANGED <<others, files, db, args, phase, latest_version, faults>>

\* The *_database call has returned to *_all, which ignores the value and
\* goes on: after the host to the tenant lookup, after a tenant to the next.
Return ==
    /\ pc = "return"
    /\ results' = Append(results, [db |-> call.db, ret |-> call.ret,
                                    report |-> call.report, raised_at |-> call.raised_at])
    /\ last' = [last EXCEPT ![call.db] = Summary]
    /\ conn' = NoConn
    /\ call' = NoCall
    /\ queue' = Tail(queue)
    /\ pc' = IF phase = "host" THEN "lookup"
             ELSE IF Tail(queue) = <<>> THEN "complete" ELSE "begin"
    /\ UNCHANGED <<others, files, db, args, phase, latest_version, faults>>

\* tenant_dbs = self.get_all_tenant_databases(): [] when the lookup fails.
Lookup ==
    /\ pc = "lookup"
    /\ \E ok \in BOOLEAN :
           /\ ~ok => faults < MaxFaults
           /\ faults' = IF ok THEN faults ELSE faults + 1
           /\ queue' = IF ok THEN get_all_tenant_databases ELSE <<>>
    /\ phase' = IF queue' = <<>> THEN "notenants" ELSE "tenants"
    /\ pc' = IF queue' = <<>> THEN "complete" ELSE "begin"
    /\ UNCHANGED <<others, files, db, args, conn, call, results, last, latest_version>>

\* migrate_all / rollback_all: the green banner printed after the last
\* database. The values the *_database calls returned are not kept, so the
\* banner does not depend on them.
ClosingBanner(command, returned_values) ==
    IF command = "migrate" THEN "MIGRATION COMPLETE" ELSE "ROLLBACK COMPLETE"

\* main() returns None after the dispatch and is not passed to sys.exit: the
\* process ends with status 0 whatever the *_database calls returned.
ExitStatus(command, returned_values) == 0

\* The closing banner is printed and the process ends.
Exit ==
    /\ pc = "complete"
    /\ pc' = "idle"
    /\ args' = NoArgs
    /\ results' = <<>>
    /\ latest_version' = 0
    /\ phase' = "host"
    /\ UNCHANGED <<others, files, db, queue, conn, call, last, faults>>

Next ==
    \/ Main
    \/ MigrateBegin \/ MigrateDone \/ MigrateSkip \/ MigrateDryRun \/ MigrateApply
    \/ ApplyInsert \/ ApplyCommit
    \/ RollbackBegin \/ RollbackDone \/ RollbackDryRun \/ RollbackApply
    \/ StatusDatabase
    \/ Return \/ Lookup \/ Exit

Spec == Init /\ [][Next]_vars

\* ------------------------------------------------- MigrationFile on its own
\* The paths and contents a MigrationFile is built from: every stem under
\* the three scope directories and one other directory, with one content;
\* and every content, under one path.
ParentDirs == {"host", "tenant", "both", "archive"}

ParseInit ==
    /\ \/ /\ filepath \in [parent : ParentDirs, stem : Stems]
          /\ content = <<"x">>
       \/ /\ filepath = [parent |-> "host", stem |-> <<"1", "_", "a">>]
          /\ content \in Contents
    /\ parsed = NoMigration
    /\ files = {}
    /\ RunnerStart
    /\ WorkersIdle
    /\ Unedited
    /\ HandlerIdle
    /\ CleanerIdle
    /\ DiscoverIdle
    /\ WebhookIdle

\* MigrationFile(filepath)
NewMigrationFile ==
    /\ parsed.state = "none"
    /\ parsed' = MigrationFile(filepath, content)
    /\ UNCHANGED <<runner_vars, conc_vars, edit_vars, handler_vars, clean_vars,
                   discover_vars, webhook_vars, filepath, content>>

ParseSpec == ParseInit /\ [][NewMigrationFile]_vars

\* ------------------------------------------- discover_migrations on its own
RECURSIVE SetsUpTo(_, _)
SetsUpTo(U, n) ==
    IF n = 0 THEN {{}}
    ELSE LET smaller == SetsUpTo(U, n - 1)
         IN  smaller \cup {S \cup {x} : S \in smaller, x \in U}

\* The stems of the files on disk: every stem of one or two characters, and
\* three longer ones.
ListedStems ==
    {stem \in Stems : Len(stem) \in 1..2}
        \cup {<<"1", "_", "a">>, <<"0", "_", "a">>, <<"1", "0", "_">>}

DiscoverInit ==
    /\ \E exists \in SUBSET ScopeSet :
           \E paths \in SetsUpTo([parent : exists, stem : ListedStems], MaxFiles) :
               root = [exists |-> exists, paths |-> paths]
    /\ scope_arg = None
    /\ discovered = NoDiscovery
    /\ files = {}
    /\ RunnerStart
    /\ WorkersIdle
    /\ Unedited
    /\ HandlerIdle
    /\ CleanerIdle
    /\ ParserIdle
    /\ WebhookIdle

\* discover_migrations(scope), with or without its argument
Discover ==
    /\ discovered.state = "none"
    /\ \E scope \in {None} \cup {Some(sc) : sc \in ScopeSet} :
           /\ scope_arg' = scope
           /\ discovered' = [state |-> "returned", list |-> discover(root, scope)]
    /\ UNCHANGED <<runner_vars, conc_vars, edit_vars, handler_vars, clean_vars,
                   parser_vars, webhook_vars, root>>

DiscoverSpec == DiscoverInit /\ [][Discover]_vars

\* ----------------------------------------------- verify_signature on its own
WebhookInit ==
    /\ environment \in {"development", "production", "staging"}
    /\ STRIPE_WEBHOOK_SECRET \in {None} \cup {Some(k) : k \in Secrets}
    /\ payload \in Payloads
    /\ sig_header \in Headers
    /\ returned = NotCalled
    /\ files = {}
    /\ RunnerStart
    /\ WorkersIdle
    /\ Unedited
    /\ HandlerIdle
    /\ CleanerIdle
    /\ ParserIdle
    /\ DiscoverIdle

\* StripeWebhookHandler.verify_signature(payload, sig_header): the
\* development branch returns json.loads(payload.decode('utf-8')) unverified,
\* or None; otherwise construct_event's event is returned, ValueError and
\* SignatureVerificationError give None, any other exception leaves the call.
verify_signature ==
    /\ returned.state = "none"
    /\ IF skips_verification(environment, STRIPE_WEBHOOK_SECRET, sig_header)
       THEN returned' = IF payload.utf8 /\ payload.json
                        THEN [state |-> "event", verified |-> FALSE]
                        ELSE [state |-> "None"]
       ELSE \E outcome \in construct_event(payload, sig_header, STRIPE_WEBHOOK_SECRET) :
                returned' = CASE outcome = "event" -> [state |-> "event", verified |-> TRUE]
                              [] outcome \in {"ValueError", "SignatureVerificationError"} ->
                                     [state |-> "None"]
                              [] OTHER -> [state |-> "raised"]
    /\ UNCHANGED <<runner_vars, conc_vars, edit_vars, handler_vars, clean_vars,
                   parser_vars, discover_vars,
                   environment, STRIPE_WEBHOOK_SECRET, payload, sig_header>>

WebhookSpec == WebhookInit /\ [][verify_signature]_vars

\* ------------------------------------------------------ clean_db_files.py
\* A file under the working directory: the directory it is in and the
\* extension of its name. "nbs" is a search path of its own and lies under
\* "."; "node_modules" is an excluded directory; "_proc" does not exist.
DiskFiles == [dir : {".", "nbs", "node_modules"}, ext : {"db", "sqlite3", "txt"}]

patterns == <<"db", "sqlite", "sqlite3", "db-shm", "db-wal", "db-journal">>
search_paths == <<".", "nbs", "_proc">>
exclude_dirs == {".git", "node_modules", "dist", "build", ".venv", "venv"}

\* glob.glob(os.path.join(search_path, "**", pattern), recursive=True): the
\* matching files of the directory itself, then of the directories below it.
\* A found path names the search path it was found through, so the same
\* file found through "." and through "nbs" gives two paths.
Globbed(fs, search_path, pattern) ==
    LET dirs == IF search_path = "." THEN <<".", "nbs", "node_modules">>
                ELSE <<search_path>>
        hits == SelectSeq(dirs, LAMBDA d : [dir |-> d, ext |-> pattern] \in fs)
    IN  [i \in 1..Len(hits) |->
            [via |-> search_path, file |-> [dir |-> hits[i], ext |-> pattern]]]

\* The loop over patterns, with the exclude_dirs test on the path's parts.
RECURSIVE ScanPatterns(_, _, _)
ScanPatterns(fs, search_path, j) ==
    IF j > Len(patterns) THEN <<>>
    ELSE SelectSeq(Globbed(fs, search_path, patterns[j]),
                   LAMBDA p : p.file.dir \notin exclude_dirs)
         \o ScanPatterns(fs, search_path, j + 1)

\* The loop over search_paths; os.path.exists(search_path): a directory is
\* there when it holds a file.
RECURSIVE ScanPaths(_, _)
ScanPaths(fs, i) ==
    IF i > Len(search_paths) THEN <<>>
    ELSE (IF search_paths[i] = "." \/ \E f \in fs : f.dir = search_paths[i]
          THEN ScanPatterns(fs, search_paths[i], 1) ELSE <<>>)
         \o ScanPaths(fs, i + 1)

find_db_files(fs) == ScanPaths(fs, 1)

\* What input() meets: a line the user typed, end of input, or Ctrl-C.
Stdin ==
    [kind : {"line"}, text : SeqsUpTo({"y", "Y", "e", "s", "n", " "}, MaxInput)]
        \cup [kind : {"EOFError", "KeyboardInterrupt"}, text : {<<>>}]

\* str.strip()
RECURSIVE str_lstrip(_)
str_lstrip(s) == IF s # <<>> /\ Head(s) = " " THEN str_lstrip(Tail(s)) ELSE s

RECURSIVE str_rstrip(_)
str_rstrip(s) ==
    IF s # <<>> /\ s[Len(s)] = " " THEN str_rstrip(SubSeq(s, 1, Len(s) - 1)) ELSE s

str_strip(s) == str_rstrip(str_lstrip(s))

\* str.lower()
str_lower(s) == [i \in 1..Len(s) |-> IF s[i] = "Y" THEN "y" ELSE s[i]]

\* A test that takes any answer beginning with y.
confirmed_by_first_letter(confirmation) ==
    confirmation # <<>> /\ Head(confirmation) = "y"

\* the negation of: confirmation not in ('y', 'yes')
confirmed(confirmation) == confirmation \in {<<"y">>, <<"y", "e", "s">>}

CleanInit ==
    /\ tree \in SetsUpTo(DiskFiles, MaxDisk)
    /\ stdin \in Stdin
    /\ cleaner = NotStarted
    /\ files = {}
    /\ RunnerStart
    /\ WorkersIdle
    /\ Unedited
    /\ HandlerIdle
    /\ ParserIdle
    /\ DiscoverIdle
    /\ WebhookIdle

\* main(): db_files = find_db_files(); return 0 when there is none, else the
\* files are listed.
CleanFind ==
    /\ cleaner.pc = "start"
    /\ LET db_files == find_db_files(tree)
       IN  cleaner' = IF db_files = <<>>
                      THEN [cleaner EXCEPT !.before = tree, !.ret = Some(0), !.pc = "done"]
                      ELSE [cleaner EXCEPT !.before = tree, !.db_files = db_files,
                                           !.pc = "confirm"]
    /\ UNCHANGED <<runner_vars, conc_vars, edit_vars, handler_vars, parser_vars,
                   discover_vars, webhook_vars, tree, stdin>>

\* confirmation = input("Continue? (y/N): ").strip().lower(): return 1 on
\* EOFError or KeyboardInterrupt and on any answer but y and yes.
CleanConfirm ==
    /\ cleaner.pc = "confirm"
    /\ cleaner' =
         IF stdin.kind # "line" \/ ~confirmed(str_lower(str_strip(stdin.text)))
         THEN [cleaner EXCEPT !.prompted = TRUE, !.ret = Some(1), !.pc = "done"]
         ELSE [cleaner EXCEPT !.prompted = TRUE, !.remaining = cleaner.db_files,
                              !.pc = "remove"]
    /\ UNCHANGED <<runner_vars, conc_vars, edit_vars, handler_vars, parser_vars,
                   discover_vars, webhook_vars, tree, stdin>>

\* One round of the removal loop: os.remove(file_path) removes the file, or
\* raises (always when the file is not there) and the except prints Failed.
CleanRemove ==
    /\ cleaner.pc = "remove"
    /\ cleaner.remaining # <<>>
    /\ LET file_path == Head(cleaner.remaining)
       IN  \E ok \in BOOLEAN :
              /\ ok => file_path.file \in tree
              /\ tree' = IF ok THEN tree \ {file_path.file} ELSE tree
              /\ cleaner' =
                   [cleaner EXCEPT
                       !.remaining = Tail(@),
                       !.removed_count = IF ok THEN @ + 1 ELSE @,
                       !.log = Append(@, [path |-> file_path,
                                          kind |-> IF ok THEN "removed" ELSE "failed"])]
    /\ UNCHANGED <<runner_vars, conc_vars, edit_vars, handler_vars, parser_vars,
                   discover_vars, webhook_vars, stdin>>

\* The loop is over: Cleanup complete, return 0.
CleanDone ==
    /\ cleaner.pc = "remove"
    /\ cleaner.remaining = <<>>
    /\ cleaner' = [cleaner EXCEPT !.ret = Some(0), !.pc = "done"]
    /\ UNCHANGED <<runner_vars, conc_vars, edit_vars, handler_vars, parser_vars,
                   discover_vars, webhook_vars, tree, stdin>>

CleanSpec == CleanInit /\ [][CleanFind \/ CleanConfirm \/ CleanRemove \/ CleanDone]_vars

\* ------------------------------------------- stripe_webhooks.handle_event
\* An event: its "type" (None when the key is missing) and, of its
\* data.object, the metadata's tenant_id and user_email (None when missing,
\* "" when empty) and the "subscription" of a checkout session or invoice.
\* A subscription object's own id is "sub_1".
HandledTypes ==
    {"checkout.session.completed", "customer.subscription.created",
     "customer.subscription.updated", "customer.subscription.deleted",
     "invoice.payment_succeeded", "invoice.payment_failed"}

Events ==
    [type : {None} \cup {Some(t) : t \in HandledTypes \cup {"customer.created"}},
     tenant_id : {None, Some(""), Some("t1")},
     user_email : {None, Some("u@x")},
     subscription : {None, Some("sub_1")}]

\* Python truthiness of an Optional[str]: None and "" are false.
TruthyStr(x) == ~IsNone(x) /\ Val(x) # ""

\* A handler's return value, or its exception, with the queries it issued.
Result(status, message, issued) ==
    [status |-> status, message |-> message, raised |-> FALSE, issued |-> issued]

Raises(issued) ==
    [status |-> "none", message |-> "str(e)", raised |-> TRUE, issued |-> issued]

\* _find_subscription_by_stripe_id: the record, or None when there is none
\* or when the query raised.
find_subscription_by_stripe_id(table, id, fail) == fail # "find" /\ id \in table

\* _upsert_subscription: the lookup, then the subscription_upsert query,
\* whose exception is not caught here.
upsert_subscription(fail) ==
    [raised |-> fail = "upsert",
     issued |-> <<"subscription_find_by_stripe_id", "subscription_upsert">>]

\* The test with `and` in place of `or`.
missing_both(tenant_id, user_email) == ~TruthyStr(tenant_id) /\ ~TruthyStr(user_email)

\* not tenant_id or not user_email
missing_metadata(tenant_id, user_email) == ~TruthyStr(tenant_id) \/ ~TruthyStr(user_email)

\* _update_user_stripe_customer catches its own exception.
handle_checkout_completed(ev, table, fail) ==
    IF missing_metadata(ev.tenant_id, ev.user_email)
    THEN Result("error", "Missing tenant_id or user_email", <<>>)
    ELSE IF TruthyStr(ev.subscription)
    THEN IF fail = "retrieve" THEN Raises(<<>>)
         ELSE LET upsert == upsert_subscription(fail)
              IN  IF upsert.raised THEN Raises(upsert.issued)
                  ELSE Result("success", "Subscription created",
                              upsert.issued \o <<"user_update">>)
    ELSE Result("warning", "No subscription found in session", <<>>)

handle_subscription_created(ev, table, fail) ==
    IF TruthyStr(ev.tenant_id) /\ TruthyStr(ev.user_email)
    THEN LET upsert == upsert_subscription(fail)
         IN  IF upsert.raised THEN Raises(upsert.issued)
             ELSE Result("success", "Subscription initialized", upsert.issued)
    ELSE Result("warning", "Subscription created but missing metadata", <<>>)

handle_subscription_updated(ev, table, fail) ==
    LET lookup == <<"subscription_find_by_stripe_id">>
    IN  IF find_subscription_by_stripe_id(table, "sub_1", fail)
        THEN LET upsert == upsert_subscription(fail)
             IN  IF upsert.raised THEN Raises(lookup \o upsert.issued)
                 ELSE Result("success", "Subscription updated", lookup \o upsert.issued)
        ELSE Result("warning", "Subscription not found in database", lookup)

handle_subscription_deleted(ev, table, fail) ==
    IF fail = "query" THEN Result("error", "str(e)", <<"subscription_cancel">>)
    ELSE Result("success", "Subscription canceled", <<"subscription_cancel">>)

\* handle_payment_succeeded and handle_payment_failed: the same but for the
\* status written and the messages.
handle_payment(ev, table, fail, recorded) ==
    IF TruthyStr(ev.subscription)
    THEN IF fail = "query" THEN Result("error", "str(e)", <<"subscription_update_status">>)
         ELSE Result("success", recorded, <<"subscription_update_status">>)
    ELSE Result("success", recorded \o " (no subscription)", <<>>)

\* handlers.get(event_type): the name of the handler, or None.
handlers(event_type) ==
    IF IsNone(event_type) THEN None
    ELSE CASE Val(event_type) = "checkout.session.completed" ->
                  Some("handle_checkout_completed")
           [] Val(event_type) = "customer.subscription.created" ->
                  Some("handle_subscription_created")
           [] Val(event_type) = "customer.subscription.updated" ->
                  Some("handle_subscription_updated")
           [] Val(event_type) = "customer.subscription.deleted" ->
                  Some("handle_subscription_deleted")
           [] Val(event_type) = "invoice.payment_succeeded" ->
                  Some("handle_payment_succeeded")
           [] Val(event_type) = "invoice.payment_failed" ->
                  Some("handle_payment_failed")
           [] OTHER -> None

\* handler(event)
Invoke(handler, ev, table, fail) ==
    CASE handler = "handle_checkout_completed" -> handle_checkout_completed(ev, table, fail)
      [] handler = "handle_subscription_created" -> handle_subscription_created(ev, table, fail)
      [] handler = "handle_subscription_updated" -> handle_subscription_updated(ev, table, fail)
      [] handler = "handle_subscription_deleted" -> handle_subscription_deleted(ev, table, fail)
      [] handler = "handle_payment_succeeded" ->
             handle_payment(ev, table, fail, "Payment recorded")
      [] handler = "handle_payment_failed" ->
             handle_payment(ev, table, fail, "Payment failure recorded")

\* handle_event without its try / except around the handler.
propagates(outcome) ==
    IF outcome.raised THEN [state |-> "raised", status |-> "none", message |-> "none"]
    ELSE [state |-> "returned", status |-> outcome.status, message |-> outcome.message]

\* try: return handler(event) / except Exception as e: return {"status":
\* "error", "message": str(e)}
returns_or_catches(outcome) ==
    IF outcome.raised THEN [state |-> "returned", status |-> "error", message |-> "str(e)"]
    ELSE [state |-> "returned", status |-> outcome.status, message |-> outcome.message]

HandlerInit ==
    /\ event \in Events
    /\ subscriptions \in SUBSET {"sub_1"}
    /\ handled = NotHandled
    /\ files = {}
    /\ RunnerStart
    /\ WorkersIdle
    /\ Unedited
    /\ ParserIdle
    /\ DiscoverIdle
    /\ WebhookIdle
    /\ CleanerIdle

\* StripeWebhookHandler.handle_event(event). fail is the external call of the
\* handler that raises, if it is reached: Subscription.retrieve, the lookup,
\* the upsert, the user update, or the handler's one query.
handle_event ==
    /\ handled.state = "none"
    /\ LET handler == handlers(event.type)
       IN  IF ~IsNone(handler)
           THEN \E fail \in {"none", "retrieve", "find", "upsert", "user", "query"} :
                  LET outcome == Invoke(Val(handler), event, subscriptions, fail)
                      back == returns_or_catches(outcome)
                      upserted ==
                          /\ ~outcome.raised
                          /\ \E i \in 1..Len(outcome.issued) :
                                 outcome.issued[i] = "subscription_upsert"
                  IN  /\ handled' = [state |-> back.state, status |-> back.status,
                                     message |-> back.message,
                                     invoked |-> <<Val(handler)>>,
                                     inner |-> IF outcome.raised THEN "raised"
                                               ELSE outcome.status,
                                     issued |-> outcome.issued,
                                     before |-> subscriptions]
                      /\ subscriptions' =
                            IF upserted
                            THEN subscriptions \cup
                                   {IF Val(handler) = "handle_checkout_completed"
                                    THEN Val(event.subscription) ELSE "sub_1"}
                            ELSE subscriptions
           ELSE /\ handled' = [NotHandled EXCEPT !.state = "returned",
                                                 !.status = "ignored",
                                                 !.message = "not handled",
                                                 !.before = subscriptions]
                /\ UNCHANGED subscriptions
    /\ UNCHANGED <<runner_vars, conc_vars, edit_vars, parser_vars, discover_vars,
                   webhook_vars, clean_vars, event>>

HandlerSpec == HandlerInit /\ [][handle_event]_vars

\* ------------------------------------- the migrations directory is edited
\* Someone adds a file to the migrations directory, or removes one, while a
\* migrate_all or rollback_all is between two databases or inside the call
\* on a later one. Counted with the injected failures.
EditDirectory ==
    /\ pc \in {"lookup", "begin", "loop", "executed", "inserted", "return"}
    /\ args.command \in {"migrate", "rollback"}
    /\ results # <<>>
    /\ faults < MaxFaults
    /\ faults' = faults + 1
    /\ \E f \in FileUniverse :
           /\ files' = IF f \in files THEN files \ {f} ELSE files \cup {f}
           /\ files' \in Directories
    /\ UNCHANGED <<others, db, pc, args, phase, queue, conn, call, results, last,
                   latest_version>>

EditSpec == Init /\ [][Next \/ EditDirectory]_vars

\* --------------------------------- two runners migrating the same database
\* Two invocations of `migrate` (no --to, no --dry-run) are inside
\* migrate_database on the host database at the same time, each with its own
\* connection. A statement sees what is committed (READ COMMITTED) and its
\* own transaction; the unique index of the primary key also sees the other
\* connection's uncommitted row, for which an INSERT of the same key waits.
ConcInit ==
    /\ files \in Directories
    /\ workers = [r \in Runners |-> Worker("start")]
    /\ RunnerStart
    /\ ParserIdle
    /\ DiscoverIdle
    /\ WebhookIdle
    /\ CleanerIdle
    /\ HandlerIdle
    /\ Unedited

\* What a runner's step leaves alone, the database and workers aside.
conc_frame ==
    <<parser_vars, discover_vars, webhook_vars, clean_vars, handler_vars, edit_vars,
      files, pc, args, phase, queue, conn, call, results, last, latest_version, faults>>

\* Connect, _ensure_migration_table, get_current_version, discover and
\* filter: "Already up to date", or the loop begins.
ConcBegin(r) ==
    /\ workers[r].pc = "start"
    /\ LET current_version == get_current_version(db[HostDb])
           pending == PendingUp(discover_migrations(files), current_version, None)
       IN  workers' = [workers EXCEPT ![r] =
               [@ EXCEPT !.current_version = current_version,
                         !.pending = pending,
                         !.ret = (pending = <<>>),
                         !.pc = IF pending = <<>> THEN "done" ELSE "loop"]]
    /\ db' = [db EXCEPT ![HostDb] = ensure_migration_table(@)]
    /\ UNCHANGED conc_frame

\* The scope check says continue.
ConcSkip(r) ==
    /\ workers[r].pc = "loop"
    /\ workers[r].pending # <<>>
    /\ ScopeSkipped(Head(workers[r].pending), HostDb)
    /\ workers' = [workers EXCEPT ![r].pending = Tail(@)]
    /\ UNCHANGED <<conc_frame, db>>

\* apply_migration up to cursor.execute(sql): the SQL joins the runner's
\* transaction, or fails and the transaction is rolled back.
ConcExecute(r) ==
    /\ workers[r].pc = "loop"
    /\ workers[r].pending # <<>>
    /\ ~ScopeSkipped(Head(workers[r].pending), HostDb)
    /\ \E ok \in BOOLEAN :
           workers' = [workers EXCEPT ![r] =
               IF ok /\ Head(workers[r].pending).up
               THEN [@ EXCEPT !.txn_effects = Append(@, Effect(Head(workers[r].pending), "up")),
                              !.pc = "executed"]
               ELSE [@ EXCEPT !.txn_effects = <<>>, !.txn_rows = <<>>, !.pending = <<>>,
                              !.raised_at = "execute", !.pc = "done"]]
    /\ db' = [db EXCEPT ![HostDb] = IF workers'[r].pc = "done" THEN rollback(@, workers[r]) ELSE @]
    /\ UNCHANGED conc_frame

\* INSERT INTO _migration_versions: waits while the other runner's open
\* transaction holds a row of the same key; fails on the primary key when a
\* committed row has it, and the transaction is rolled back.
ConcInsert(r) ==
    /\ workers[r].pc = "executed"
    /\ LET row == Row(Head(workers[r].pending), "up")
           conflict == PrimaryKeyConflict(db[HostDb].rows \o workers[r].txn_rows, row)
       IN  /\ \A o \in Runners \ {r} : ~PrimaryKeyConflict(workers[o].txn_rows, row)
           /\ workers' = [workers EXCEPT ![r] =
                  IF conflict
                  THEN [@ EXCEPT !.txn_effects = <<>>, !.txn_rows = <<>>, !.pending = <<>>,
                                 !.raised_at = "insert", !.pc = "done"]
                  ELSE [@ EXCEPT !.txn_rows = Append(@, row), !.pc = "inserted"]]
           /\ db' = [db EXCEPT ![HostDb] = IF conflict THEN rollback(@, workers[r]) ELSE @]
    /\ UNCHANGED conc_frame

\* conn.commit(); return True, and the loop moves on.
ConcCommit(r) ==
    /\ workers[r].pc = "inserted"
    /\ db' = [db EXCEPT ![HostDb] = commit(@, workers[r])]
    /\ workers' = [workers EXCEPT ![r] =
           [@ EXCEPT !.txn_effects = <<>>, !.txn_rows = <<>>,
                     !.applied = Append(@, Head(workers[r].pending)),
                     !.pending = Tail(@), !.pc = "loop"]]
    /\ UNCHANGED conc_frame

\* The loop is over: conn.close(); return True.
ConcDone(r) ==
    /\ workers[r].pc = "loop"
    /\ workers[r].pending = <<>>
    /\ workers' = [workers EXCEPT ![r] = [@ EXCEPT !.ret = TRUE, !.pc = "done"]]
    /\ UNCHANGED <<conc_frame, db>>

ConcSpec ==
    ConcInit /\ [][\E r \in Runners : \/ ConcBegin(r) \/ ConcSkip(r) \/ ConcExecute(r)
                                      \/ ConcInsert(r) \/ ConcCommit(r) \/ ConcDone(r)]_vars

\* =================================================================== claims
IsTenantDb(d) == \E i \in 1..Len(get_all_tenant_databases) : get_all_tenant_databases[i] = d

\* The committed SQL effects of a database are, one for one and in order,
\* the rows of its tracking table.
EffectsMatchRows(d) ==
    /\ Len(d.effects) = Len(d.rows)
    /\ \A i \in 1..Len(d.effects) :
           d.rows[i] = Row(d.effects[i].file, d.effects[i].direction)

InCall == pc \in {"loop", "executed", "inserted", "return"}

\* C1: in every reachable state and for every database, a migration's SQL
\* effect is committed exactly when its tracking row is: neither is ever
\* committed without the other, whichever statement of apply_migration
\* failed; and a call has added to the database exactly what its successful
\* apply_migration calls committed, so a failed one has left nothing.
C1_SqlAndRowCommitTogether ==
    /\ \A d \in DbNames : EffectsMatchRows(db[d])
    /\ InCall => Len(db[call.db].rows) = call.rows_before + call.wrote

\* C1's case: an earlier migration of the call was committed, the next one's
\* SQL ran and its INSERT then failed.
C1_Witness ==
    /\ pc = "return"
    /\ call.raised_at = "insert"
    /\ call.wrote >= 1
    /\ Len(db[call.db].rows) >= 1

\* The migrations directory holds exactly versions 1..n, one file each, every
\* one with a DOWN section and applicable to database d.
FullSet(d, n) ==
    /\ n >= 1
    /\ Cardinality(files) = n
    /\ {f.version : f \in files} = 1..n
    /\ \A f \in files : f.down /\ ~ScopeSkipped(f, d)

\* C2: after versions 1..n, all applicable, are applied to an empty database
\* the current version is n; after a following successful rollback of k
\* steps (1 <= k <= n), it is n - k.
C2_VersionAfterApplyThenRollback ==
    LET d == call.db
        n == Cardinality(files)
    IN  (pc = "return" /\ FullSet(d, n) /\ ~args.dry_run /\ IsNone(args.to) /\ call.ret) =>
            /\ (args.command = "migrate" /\ call.rows_before = 0) =>
                   get_current_version(db[d]) = n
            /\ (args.command = "rollback" /\ last[d].fresh /\ args.steps <= n
                    /\ call.report = "rolledback") =>
                   get_current_version(db[d]) = n - args.steps

\* C3: a migrate_database call that directly follows a successful one on the
\* same database (no file added, nothing failing) reports "Already up to
\* date", inserts no tracking row and executes no migration SQL.
C3_SecondMigrateUpToDate ==
    (pc = "return" /\ args.command = "migrate" /\ ~args.dry_run /\ IsNone(args.to)
        /\ last[call.db].migrated /\ faults = 0) =>
        (call.report = "uptodate" /\ call.wrote = 0 /\ call.trail = <<>>)

\* C4: forward SQL of a host-scoped migration is never committed on a tenant
\* database, and forward SQL of a tenant-scoped migration never on the host
\* database.
C4_ScopeFiltering ==
    \A d \in DbNames : \A i \in 1..Len(db[d].effects) :
        LET e == db[d].effects[i]
        IN  e.direction = "up" =>
                /\ e.file.scope = "host" => ~IsTenantDb(d)
                /\ e.file.scope = "tenant" => d # HostDb

Dbs(seq) == [i \in 1..Len(seq) |-> seq[i].db]

\* What *_all has to have processed when it prints its closing banner.
AllProcessed ==
    /\ phase \in {"tenants", "notenants"}
    /\ Dbs(results) = <<HostDb>> \o
           (IF phase = "tenants" THEN get_all_tenant_databases ELSE <<>>)

\* C5, in each state: a failed apply_migration is the last one of its
\* migrate_database call, which has returned False; and migrate_all reaches
\* its end with the host and every looked-up tenant processed, whichever of
\* them failed.
C5_FailureStopsOnlyThisDatabase ==
    /\ (args.command = "migrate" /\ InCall) =>
           \A i \in 1..Len(call.trail) :
               call.trail[i].kind = "failed" =>
                   (i = Len(call.trail) /\ pc = "return" /\ ~call.ret
                        /\ call.wrote = i - 1)
    /\ (args.command = "migrate" /\ pc = "complete") =>
           /\ AllProcessed
           /\ \A i \in 1..Len(results) : results[i].report = "failed" => ~results[i].ret

\* C5, in each step: a step of the call on one database changes no other
\* database, so what the run does to the others does not depend on it.
C5_OtherDatabasesUntouched ==
    pc \in {"begin", "loop", "executed", "inserted"} =>
        \A e \in DbNames \ {Head(queue)} : db'[e] = db[e]

\* C5: when apply_migration fails on a database during migrate_all, nothing
\* more is attempted on that database and its migrate_database returns
\* False, while the host and every looked-up tenant are still processed and
\* no step on one database changes another.
C5_PartialFailureContained ==
    []C5_FailureStopsOnlyThisDatabase /\ [][C5_OtherDatabasesUntouched]_vars

\* C5's case: one database's migration failed and a database processed after
\* it in the same run was migrated.
C5_Witness ==
    /\ pc = "complete"
    /\ args.command = "migrate"
    /\ \E i, j \in 1..Len(results) :
           /\ i < j
           /\ results[i].report = "failed"
           /\ results[j].report = "migrated"
           /\ db[results[j].db].rows # <<>>

\* C6: with a target version supplied to migrate (0 included), only
\* migrations with current < version <= target are pending, and none above
\* the target is applied.
C6_TargetCapsPending ==
    (args.command = "migrate" /\ ~IsNone(args.to) /\ InCall) =>
        /\ \A i \in 1..Len(call.selected) :
               /\ call.selected[i].version > call.current_version
               /\ call.selected[i].version <= Val(args.to)
        /\ \A i \in 1..Len(call.trail) : call.trail[i].file.version <= Val(args.to)

\* C7, in each state: in dry-run mode no migration SQL is executed and no
\* tracking row inserted, not even inside an open transaction.
C7_DryRunExecutesNothing ==
    args.dry_run =>
        /\ conn.txn_effects = <<>> /\ conn.txn_rows = <<>>
        /\ call.wrote = 0
        /\ \A i \in 1..Len(call.trail) : call.trail[i].kind = "dry"

\* C7, in each step: a step of a dry-run command leaves every database's
\* tracking rows and schema effects as they were; the tracking table may be
\* created and is never dropped.
C7_DryRunStep ==
    args.dry_run =>
        \A d \in DbNames :
            /\ db'[d].rows = db[d].rows
            /\ db'[d].effects = db[d].effects
            /\ db[d].table => db'[d].table

\* C7: dry-run mode writes nothing but the tracking table's creation.
C7_DryRunWritesNothing ==
    []C7_DryRunExecutesNothing /\ [][C7_DryRunStep]_vars

\* C7's case: a dry-run rollback on a migrated database has printed what it
\* would roll back and returned.
C7_Witness ==
    /\ pc = "return"
    /\ args.command = "rollback"
    /\ args.dry_run
    /\ Len(call.trail) >= 1
    /\ db[call.db].rows # <<>>

\* C8: a rollback of a migration whose down_sql is empty fails at the
\* section check: none of its SQL is ever executed or committed, no row is
\* inserted for it, the failing call is the last of its rollback_database
\* call, which returns False with the current version as it was read; and
\* rollback_all still processes the host and every looked-up tenant.
C8_EmptyDownFailsCleanly ==
    /\ \A d \in DbNames : \A i \in 1..Len(db[d].effects) :
           db[d].effects[i].direction = "down" => db[d].effects[i].file.down
    /\ \A i \in 1..Len(conn.txn_effects) :
           conn.txn_effects[i].direction = "down" => conn.txn_effects[i].file.down
    /\ (args.command = "rollback" /\ InCall) =>
           \A i \in 1..Len(call.trail) :
               (call.trail[i].kind # "dry" /\ ~call.trail[i].file.down) =>
                   /\ call.trail[i].kind = "failed"
                   /\ call.raised_at = "section"
                   /\ i = Len(call.trail)
                   /\ pc = "return" /\ ~call.ret
                   /\ Len(db[call.db].rows) = call.rows_before + (i - 1)
                   /\ get_current_version(db[call.db]) = call.current_version
    /\ (args.command = "rollback" /\ pc = "complete") => AllProcessed

\* C8's case: in one rollback_all, one database's rollback failed on an empty
\* DOWN section and another database was rolled back.
C8_Witness ==
    /\ pc = "complete"
    /\ args.command = "rollback"
    /\ \E i, j \in 1..Len(results) :
           /\ results[i].raised_at = "section"
           /\ results[j].report = "rolledback"
           /\ \E k \in 1..Len(db[results[j].db].rows) :
                  db[results[j].db].rows[k].direction = "down"

\* C9: when migrate_database, rollback_database or show_status's block for
\* one database has returned, its connection is closed.
C9_ConnectionClosedOnReturn ==
    pc = "return" => ~conn.open

\* rollback_database is past its early returns: the selection has been made.
Selecting ==
    /\ args.command = "rollback"
    /\ \/ pc \in {"loop", "executed", "inserted"}
       \/ pc = "return" /\ call.report \in {"rolledback", "failed"}

\* C10 as amended: the target defaults to max(0, current - steps); the
\* selection is every discovered migration with target < version <= current,
\* each once, in non-increasing version order; the migrations rolled back
\* are, in that order, an initial part of the selection, and all of it when
\* the call succeeds.
C10_RollbackSelection ==
    Selecting =>
        LET current == call.current_version
            target == Val(call.target)
            sel == call.selected
            range == {f \in files : target < f.version /\ f.version <= current}
        IN  /\ IsNone(args.to) =>
                   target = (IF current - args.steps > 0 THEN current - args.steps ELSE 0)
            /\ ~IsNone(args.to) => target = Val(args.to)
            /\ {sel[i] : i \in 1..Len(sel)} = range
            /\ Len(sel) = Cardinality(range)
            /\ \A i, j \in 1..Len(sel) : i < j => sel[i].version >= sel[j].version
            /\ Len(call.trail) <= Len(sel)
            /\ \A i \in 1..Len(call.trail) :
                   /\ call.trail[i].file = sel[i]
                   /\ call.trail[i].direction = "down"
            /\ (pc = "return" /\ call.report = "rolledback") =>
                   Len(call.trail) = Len(sel)

\* C10 as stated: the selection is in strictly descending version order.
C10_StrictlyDescending ==
    Selecting =>
        \A i, j \in 1..Len(call.selected) :
            i < j => call.selected[i].version > call.selected[j].version

\* C10's case: a rollback of two steps has rolled back two versions, the
\* higher one first.
C10_Witness ==
    /\ pc = "return"
    /\ args.command = "rollback"
    /\ ~args.dry_run
    /\ call.report = "rolledback"
    /\ Len(call.selected) = 2
    /\ call.selected[1].version > call.selected[2].version
    /\ call.wrote = 2

\* C11, in each state: no tracking table holds two rows with the same
\* version and direction.
C11_OneRowPerVersionDirection ==
    \A d \in DbNames : \A i, j \in 1..Len(db[d].rows) :
        (/\ db[d].rows[i].version = db[d].rows[j].version
         /\ db[d].rows[i].direction = db[d].rows[j].direction) => i = j

\* C11, in each step: every tracking table keeps the rows it had, unchanged
\* and in place; a step can only add rows after them.
C11_RowsOnlyAppended ==
    \A d \in DbNames :
        /\ Len(db'[d].rows) >= Len(db[d].rows)
        /\ SubSeq(db'[d].rows, 1, Len(db[d].rows)) = db[d].rows

\* C11: every tracking table has at most one row per (version, direction)
\* and is append-only: migrate, rollback and status never delete or update
\* a row.
C11_TrackingTableAppendOnly ==
    []C11_OneRowPerVersionDirection /\ [][C11_RowsOnlyAppended]_vars

\* C11's case: a version has its 'up' and its 'down' row, and rolling it back
\* once more was refused by the primary key.
C11_Witness ==
    /\ pc = "return"
    /\ args.command = "rollback"
    /\ call.raised_at = "insert"
    /\ faults = 0
    /\ \E i, j \in 1..Len(db[call.db].rows) :
           /\ db[call.db].rows[i].version = db[call.db].rows[j].version
           /\ db[call.db].rows[i].direction = "up"
           /\ db[call.db].rows[j].direction = "down"

\* The versions that have an 'up' row in database d.
UpVersions(d) ==
    {db[d].rows[i].version : i \in {j \in 1..Len(db[d].rows) : db[d].rows[j].direction = "up"}}

\* A call on one database begins, and gets past its connection and table
\* creation, in this step.
ReadsVersion ==
    /\ pc = "begin"
    /\ pc' # "begin"
    /\ call'.report \notin {"dberror", "error"}

\* C12, in each step that reads a database's version: the version read is
\* the highest version with an 'up' row, 0 when there is no such row, and 0
\* when the query failed (the failure is swallowed: the call goes on).
C12_VersionRead ==
    ReadsVersion =>
        LET ups == UpVersions(Head(queue))
            v == call'.current_version
        IN  IF faults' > faults THEN v = 0
            ELSE IF ups = {} THEN v = 0
            ELSE v \in ups /\ \A w \in ups : w <= v

\* C12: get_current_version returns the maximum version among the rows with
\* direction 'up', 0 without such a row, and 0 instead of raising when the
\* query fails.
C12_CurrentVersionIsMaxUp == [][C12_VersionRead]_vars

\* C12's case: version 2 was read from a table that holds 'up' and 'down'
\* rows.
C12_Witness ==
    /\ pc \in {"loop", "return"}
    /\ call.current_version = 2
    /\ call.report # "dberror"
    /\ 1 \in UpVersions(call.db)
    /\ \E i \in 1..Len(db[call.db].rows) : db[call.db].rows[i].direction = "down"

\* The trail entries of the current call that were committed.
Applied == {i \in 1..Len(call.trail) : call.trail[i].kind = "applied"}

\* C13, in each state: the databases processed and still to process are the
\* host, then the tenants in the order of the lookup; the call in progress
\* is on the first database still to process; migrate_database has tried
\* its migrations in ascending version order, each one committed (or only
\* printed, in a dry run) before the next was started, the committed ones in
\* strictly ascending order and each with its row in the tracking table.
C13_OneDatabaseAtATimeInOrder ==
    /\ pc # "idle" =>
           Dbs(results) \o queue =
               IF phase = "host" THEN <<HostDb>>
               ELSE <<HostDb>> \o (IF phase = "tenants" THEN get_all_tenant_databases
                                   ELSE <<>>)
    /\ InCall => (queue # <<>> /\ call.db = Head(queue))
    /\ (args.command = "migrate" /\ InCall) =>
           /\ \A i, j \in 1..Len(call.trail) :
                  i < j => /\ call.trail[i].file.version <= call.trail[j].file.version
                           /\ call.trail[i].kind \in {"applied", "dry"}
           /\ \A i, j \in Applied :
                  i < j => call.trail[i].file.version < call.trail[j].file.version
           /\ Len(db[call.db].rows) = call.rows_before + Cardinality(Applied)
           /\ \A i \in Applied :
                  \E k \in (call.rows_before + 1)..Len(db[call.db].rows) :
                      db[call.db].rows[k] = Row(call.trail[i].file, "up")

\* C13, in each step: only the database being processed changes, and a
\* database already processed in this run does not change again.
C13_OnlyCurrentDatabaseChanges ==
    \A d \in DbNames :
        db'[d] # db[d] =>
            /\ queue # <<>> /\ d = Head(queue)
            /\ \A i \in 1..Len(results) : results[i].db # d

\* C13: migrate_all and rollback_all process the host first, then each
\* tenant in lookup order, one database wholly before the next; and
\* migrate_database applies pending migrations in ascending version order,
\* recording each before the next is started.
C13_SequentialInOrder ==
    []C13_OneDatabaseAtATimeInOrder /\ [][C13_OnlyCurrentDatabaseChanges]_vars

\* C13's case: the last tenant has had two migrations applied after the host
\* and the first tenant were migrated.
C13_Witness ==
    /\ pc = "return"
    /\ args.command = "migrate"
    /\ call.wrote = 2
    /\ Len(results) = 2
    /\ \A i \in 1..2 : results[i].report = "migrated" /\ db[results[i].db].rows # <<>>

HasToken(text, t) == \E i \in 1..Len(text) : text[i] = t

\* The text from its first to its last character that is not whitespace.
Trimmed(text) ==
    LET solid == {i \in 1..Len(text) : text[i] \notin Whitespace}
    IN  IF solid = {} THEN <<>>
        ELSE SubSeq(text, CHOOSE i \in solid : \A k \in solid : i <= k,
                          CHOOSE i \in solid : \A k \in solid : k <= i)

\* C14: for a content without UP marker, with or without a DOWN marker,
\* up_sql is the entire trimmed content and down_sql is empty.
C14_NoUpMarkerWholeFile ==
    (parsed.state = "built" /\ ~HasToken(content, "U")) =>
        /\ parsed.up_sql = Trimmed(content)
        /\ parsed.down_sql = <<>>

\* The text without its whitespace.
Solid(text) == SelectSeq(text, LAMBDA c : c \notin Whitespace)

\* Two spans of the content share no position.
Apart(a, b) == a[1] > a[2] \/ b[1] > b[2] \/ a[2] < b[1] \/ b[2] < a[1]

\* The text holds marker t on a line of its own: t, then only whitespace up
\* to a newline.
MarkerLine(text, t) ==
    \E i \in 1..Len(text) : \E j \in (i + 1)..Len(text) :
        /\ text[i] = t
        /\ text[j] = "n"
        /\ \A k \in (i + 1)..(j - 1) : text[k] \in Whitespace

\* C15: with an UP marker only, down_sql is empty; with an UP and a DOWN
\* marker, wherever they are, up_sql and down_sql come from disjoint regions
\* of the content, and UP body + DOWN marker + DOWN body is, whitespace
\* aside, the content that follows the first UP marker.
C15_MarkerSplitting ==
    (parsed.state = "built" /\ MarkerLine(content, "U")) =>
        /\ ~HasToken(content, "D") => parsed.down_sql = <<>>
        /\ MarkerLine(content, "D") =>
               LET first == CHOOSE i \in 1..Len(content) :
                                /\ content[i] = "U"
                                /\ \A k \in 1..(i - 1) : content[k] # "U"
               IN  /\ Apart(parsed.up_span, parsed.down_span)
                   /\ Solid(parsed.up_sql \o <<"D">> \o parsed.down_sql) =
                          Solid(SubSeq(content, first + 1, Len(content)))

\* The decimal value of a sequence of digits.
RECURSIVE Decimal(_)
Decimal(digits) ==
    IF digits = <<>> THEN 0
    ELSE 10 * Decimal(SubSeq(digits, 1, Len(digits) - 1))
             + (IF digits[Len(digits)] = "1" THEN 1 ELSE 0)

\* The ways to read a stem as <digits>_<rest>: the length of <digits>.
Forms(stem) ==
    {k \in 1..(Len(stem) - 1) :
        /\ \A i \in 1..k : stem[i] \in {"0", "1"}
        /\ stem[k + 1] = "_"}

\* C17: a file name <digits>_<name>.sql (<name> not empty) gives the version
\* the integer value of <digits> and the name <name>; a file name that does
\* not start with <digits>_ raises, and only such a name does; the scope is
\* the parent directory's name when that is host, tenant or both, and
\* 'unknown' otherwise, without raising.
C17_FilenameParsing ==
    parsed.state # "none" =>
        LET stem == filepath.stem
        IN  /\ parsed.state = "raised" <=> Forms(stem) = {}
            /\ \A k \in Forms(stem) :
                   /\ parsed.version = Decimal(SubSeq(stem, 1, k))
                   /\ Len(stem) >= k + 2 => parsed.name = SubSeq(stem, k + 2, Len(stem))
            /\ parsed.state = "built" =>
                   parsed.scope = (IF filepath.parent \in {"host", "tenant", "both"}
                                   THEN filepath.parent ELSE "unknown")

\* C17's case: 10_a.sql in a directory that is no scope directory was parsed
\* to version 10, name a, scope unknown.
C17_Witness ==
    /\ parsed.state = "built"
    /\ filepath = [parent |-> "archive", stem |-> <<"1", "0", "_", "a">>]
    /\ parsed.version = 10
    /\ parsed.name = <<"a">>
    /\ parsed.scope = "unknown"

\* C16: discover_migrations returns, each once, the files of the scanned
\* directories (host, tenant and both, or the one given as scope) whose name
\* starts with <digits>_, parsed, in non-decreasing version order; a file
\* whose name does not parse is left out and the others are still returned;
\* a scope directory that does not exist contributes nothing.
C16_DiscoverReturnsParsedInOrder ==
    discovered.state = "returned" =>
        LET list == discovered.list
            scanned == IF IsNone(scope_arg) THEN {"host", "tenant", "both"}
                       ELSE {Val(scope_arg)}
            valid == {f \in root.paths : f.parent \in scanned /\ Forms(f.stem) # {}}
        IN  /\ {list[i].filepath : i \in 1..Len(list)} = valid
            /\ Len(list) = Cardinality(valid)
            /\ \A i \in 1..Len(list) :
                   /\ list[i].scope = list[i].filepath.parent
                   /\ \E k \in Forms(list[i].filepath.stem) :
                          list[i].version = Decimal(SubSeq(list[i].filepath.stem, 1, k))
            /\ \A i, j \in 1..Len(list) : i < j => list[i].version <= list[j].version

\* C16's case: the tenant directory is missing, the host directory holds a
\* file whose name does not parse and, sorted after it, one that does, and
\* that one is returned.
C16_Witness ==
    /\ discovered.state = "returned"
    /\ IsNone(scope_arg)
    /\ root.exists = {"host", "both"}
    /\ root.paths = {[parent |-> "host", stem |-> <<"1">>],
                     [parent |-> "host", stem |-> <<"1", "_">>]}
    /\ Len(discovered.list) = 1
    /\ discovered.list[1].version = 1

\* The rows of the tenants table that are active tenants of type 'tenant'.
ActiveTenantRows ==
    {i \in 1..Len(TenantsTable) :
        TenantsTable[i].is_active /\ TenantsTable[i].tenant_type = "tenant"}

\* The tenant databases of this run: processed so far or still to process.
TenantDbs == Tail(Dbs(results) \o queue)

\* C18, in each state: after a lookup that gave tenants, the tenant
\* databases of the run are exactly those of the active rows of type
\* 'tenant', each once, in table order; after a lookup that gave none, the
\* host has been processed and no tenant database is.
C18_TenantsOfTheRun ==
    /\ phase = "tenants" =>
           /\ \A i \in 1..Len(TenantsTable) :
                  i \in ActiveTenantRows <=>
                      \E k \in 1..Len(TenantDbs) : TenantDbs[k] = TenantsTable[i].db
           /\ Len(TenantDbs) = Cardinality(ActiveTenantRows)
           /\ \A k, l \in 1..Len(TenantDbs) :
                  k < l => \E i, j \in 1..Len(TenantsTable) :
                               /\ i < j
                               /\ TenantsTable[i].db = TenantDbs[k]
                               /\ TenantsTable[j].db = TenantDbs[l]
    /\ phase = "notenants" => (Dbs(results) = <<HostDb>> /\ queue = <<>>)

\* C18, in each step of the lookup: it comes after the host was processed,
\* and a failed lookup gives the empty list: the run ends there.
C18_LookupStep ==
    pc = "lookup" =>
        /\ Dbs(results) = <<HostDb>>
        /\ faults' > faults => (queue' = <<>> /\ phase' = "notenants" /\ pc' = "complete")
        /\ faults' = faults => (queue' # <<>> /\ phase' = "tenants")

\* C18: the tenant lookup returns exactly the active tenants of type
\* 'tenant', in table order, and the empty list when it fails; the host is
\* processed either way, and no tenant database after a failed lookup.
C18_TenantLookup == []C18_TenantsOfTheRun /\ [][C18_LookupStep]_vars

\* C18's case: the lookup failed after the host was migrated, and the run
\* ended without any tenant database.
C18_Witness ==
    /\ pc = "complete"
    /\ phase = "notenants"
    /\ args.command = "migrate"
    /\ Len(results) = 1
    /\ results[1].report = "migrated"
    /\ db[HostDb].rows # <<>>
    /\ \A d \in DbNames \ {HostDb} : db[d] = EmptyDb

\* The highest version among the migration files, 0 without files.
HighestVersion ==
    IF files = {} THEN 0
    ELSE CHOOSE v \in {f.version : f \in files} : \A f \in files : f.version <= v

\* C19, in each state: a status line gives pending = latest - current, with
\* latest the highest discovered version and current a version read from
\* the database; show_status ends with the host and every looked-up tenant
\* reported, each by a status line or an error line.
C19_StatusLines ==
    args.command = "status" =>
        /\ latest_version = HighestVersion
        /\ (pc = "return" /\ call.report = "status") =>
               /\ call.pending_count = HighestVersion - call.current_version
               /\ call.current_version \in UpVersions(call.db) \cup {0}
        /\ pc = "return" => call.report \in {"status", "error"}
        /\ pc = "complete" =>
               /\ AllProcessed
               /\ \A i \in 1..Len(results) : results[i].report \in {"status", "error"}

\* C19, in each step of show_status on one database: without a failure the
\* line is a status line with the database's highest 'up' version; the step
\* writes no row and runs no SQL.
C19_StatusStep ==
    (args.command = "status" /\ pc = "begin") =>
        LET d == Head(queue)
        IN  /\ faults' = faults =>
                   /\ call'.report = "status"
                   /\ call'.current_version =
                          (IF UpVersions(d) = {} THEN 0
                           ELSE CHOOSE v \in UpVersions(d) : \A w \in UpVersions(d) : w <= v)
            /\ call'.db = d
            /\ \A e \in DbNames : db'[e].rows = db[e].rows /\ db'[e].effects = db[e].effects

\* C19: show_status reports for the host and every tenant database the
\* current version and pending = latest - current, latest being the highest
\* discovered version (0 if none); a failure on one database is reported
\* for it and the remaining databases are still reported.
C19_StatusReport == []C19_StatusLines /\ [][C19_StatusStep]_vars

\* C19's case: one database's status failed, a later one was reported, and
\* the run ended with all of them visited.
C19_Witness ==
    /\ pc = "complete"
    /\ args.command = "status"
    /\ latest_version = 2
    /\ Len(results) = 3
    /\ results[1].report = "error"
    /\ results[3].report = "status"
    /\ db[results[3].db].rows # <<>>

C21_DevelopmentWithSecretVerifies ==
    (environment = "development" /\ STRIPE_WEBHOOK_SECRET # {}
        /\ returned.state = "event") =>
        /\ returned.verified
        /\ SignatureMatches(payload, sig_header, STRIPE_WEBHOOK_SECRET)

\* The answer, without the blanks around it and whatever its case, is y or
\* yes.
SaysYes(text) ==
    \E i \in 1..Len(text), j \in 1..Len(text) :
        /\ i <= j
        /\ \A k \in 1..Len(text) : (k < i \/ k > j) => text[k] = " "
        /\ \/ i = j /\ text[i] \in {"y", "Y"}
           \/ j = i + 2 /\ text[i] \in {"y", "Y"} /\ text[i + 1] = "e" /\ text[j] = "s"

\* C22: when main has returned: with no database file found it returned 0
\* without prompting and removed nothing; with files found and an answer
\* other than y or yes (blanks and case aside), or EOF or an interrupt at
\* the prompt, it returned 1 and called os.remove for no file, the
\* directory being as it was; with y or yes it called os.remove for every
\* found path, in order, a failed removal being followed by the remaining
\* ones, removed exactly the files whose removal succeeded, and returned 0.
C22_DeletesOnlyOnConfirmation ==
    cleaner.pc = "done" =>
        LET found == cleaner.db_files
            yes == stdin.kind = "line" /\ SaysYes(stdin.text)
        IN  /\ found = <<>> =>
                /\ cleaner.ret = Some(0) /\ ~cleaner.prompted
                /\ cleaner.log = <<>> /\ tree = cleaner.before
            /\ (found # <<>> /\ ~yes) =>
                /\ cleaner.ret = Some(1) /\ cleaner.prompted
                /\ cleaner.log = <<>> /\ tree = cleaner.before
            /\ (found # <<>> /\ yes) =>
                /\ cleaner.ret = Some(0)
                /\ Len(cleaner.log) = Len(found)
                /\ \A i \in 1..Len(found) : cleaner.log[i].path = found[i]
                /\ tree = cleaner.before \
                     {cleaner.log[i].path.file :
                         i \in {k \in 1..Len(found) : cleaner.log[k].kind = "removed"}}

\* C22's case: the answer was " Y ", the first removal failed and a later
\* one succeeded.
C22_Witness ==
    /\ cleaner.pc = "done"
    /\ stdin.text = <<" ", "Y", " ">>
    /\ Len(cleaner.log) >= 2
    /\ cleaner.log[1].kind = "failed"
    /\ cleaner.log[Len(cleaner.log)].kind = "removed"

\* C23: once handle_event has been called it has returned, never raised;
\* for an event whose type is one of the six handled types exactly one
\* handler was invoked, the one of that type; for any other type, and for
\* an event without a type, no handler was invoked, no query was issued and
\* the result's status is "ignored"; and when the handler raised, the
\* result's status is "error".
C23_Dispatch ==
    handled.state # "none" =>
        LET HandlerOf ==
                [t \in HandledTypes |->
                    CASE t = "checkout.session.completed" -> "handle_checkout_completed"
                      [] t = "customer.subscription.created" -> "handle_subscription_created"
                      [] t = "customer.subscription.updated" -> "handle_subscription_updated"
                      [] t = "customer.subscription.deleted" -> "handle_subscription_deleted"
                      [] t = "invoice.payment_succeeded" -> "handle_payment_succeeded"
                      [] t = "invoice.payment_failed" -> "handle_payment_failed"]
            known == event.type # {} /\ Val(event.type) \in HandledTypes
        IN  /\ handled.state = "returned"
            /\ known => handled.invoked = <<HandlerOf[Val(event.type)]>>
            /\ ~known => /\ handled.invoked = <<>>
                         /\ handled.issued = <<>>
                         /\ handled.status = "ignored"
            /\ handled.inner = "raised" => handled.status = "error"
            /\ handled.inner \notin {"raised", "none"} => handled.status = handled.inner

\* C23's case: the checkout handler raised at the upsert query and
\* handle_event returned an error result.
C23_Witness ==
    /\ handled.state = "returned"
    /\ handled.invoked = <<"handle_checkout_completed">>
    /\ handled.inner = "raised"
    /\ handled.status = "error"
    /\ handled.issued = <<"subscription_find_by_stripe_id", "subscription_upsert">>

\* The queries that write.
IsWrite(query) ==
    query \in {"subscription_upsert", "user_update", "subscription_cancel",
               "subscription_update_status"}

NoWrite == \A i \in 1..Len(handled.issued) : ~IsWrite(handled.issued[i])

\* C24: handle_checkout_completed for a session whose metadata lacks a
\* non-empty tenant_id or user_email returns status "error" and issues no
\* query at all; for a session with both but without a subscription id it
\* returns "warning" and issues no query; handle_subscription_updated for a
\* subscription that is not in the table returns "warning", issues no write
\* and leaves the table as it was.
C24_NothingWrittenWithoutIdentity ==
    LET present(x) == x # {} /\ x # {""}
        identified == present(event.tenant_id) /\ present(event.user_email)
    IN  /\ (handled.invoked = <<"handle_checkout_completed">> /\ ~identified) =>
                /\ handled.inner = "error"
                /\ handled.issued = <<>>
                /\ subscriptions = handled.before
        /\ (handled.invoked = <<"handle_checkout_completed">> /\ identified
                /\ ~present(event.subscription)) =>
                /\ handled.inner = "warning"
                /\ handled.issued = <<>>
                /\ subscriptions = handled.before
        /\ (handled.invoked = <<"handle_subscription_updated">>
                /\ "sub_1" \notin handled.before) =>
                /\ handled.inner = "warning"
                /\ NoWrite
                /\ subscriptions = handled.before

\* C24's case: a checkout session with a subscription id and a user_email
\* but an empty tenant_id was handled.
C24_Witness ==
    /\ handled.invoked = <<"handle_checkout_completed">>
    /\ event.tenant_id = {""}
    /\ event.user_email # {}
    /\ event.subscription # {}
    /\ handled.status = "error"
    /\ handled.issued = <<>>

\* Two files of the migrations directory that share a version number.
Twins == {pair \in files \X files : pair[1] # pair[2] /\ pair[1].version = pair[2].version}

Holds(seq, x) == \E i \in 1..Len(seq) : seq[i] = x

UpApplied(d, f) == Holds(db[d].effects, Effect(f, "up"))

\* C25: two files that share a version number are both kept by discovery
\* and are selected together by migrate_database; no database ever holds the
\* forward SQL of both; and when one of them has been applied by a call on
\* a database to which the other is applicable too, the call ends with the
\* failed attempt of a file of that version, at its SQL or at the tracking
\* insert, returns False and has applied no other file of that version.
C25_DuplicateVersions ==
    \A pair \in Twins :
        LET f == pair[1]
            g == pair[2]
            migrations == discover_migrations(files)
        IN  /\ Holds(migrations, f) /\ Holds(migrations, g)
            /\ \A d \in DbNames : ~(UpApplied(d, f) /\ UpApplied(d, g))
            /\ (InCall /\ args.command = "migrate") =>
                   /\ Holds(call.selected, f) <=> Holds(call.selected, g)
                   /\ (pc = "return" /\ Holds(call.trail, Attempt(f, "up", "applied"))
                         /\ ~ScopeSkipped(g, call.db)) =>
                          LET final == call.trail[Len(call.trail)]
                          IN  /\ ~call.ret
                              /\ final.kind = "failed"
                              /\ final.file.version = f.version
                              /\ final.file # f
                              /\ call.raised_at \in {"execute", "insert"}
                              /\ ~Holds(call.trail, Attempt(g, "up", "applied"))
                              /\ ~UpApplied(call.db, g)

\* C25 as stated: a migrate call that returns, no failure having been
\* injected, with two files of one version both selected and applicable,
\* has attempted both and the database holds the forward SQL of both.
C25_BothApplied ==
    \A pair \in Twins :
        (pc = "return" /\ args.command = "migrate" /\ ~args.dry_run /\ faults = 0
            /\ Holds(call.selected, pair[1]) /\ Holds(call.selected, pair[2])
            /\ ~ScopeSkipped(pair[1], call.db) /\ ~ScopeSkipped(pair[2], call.db)) =>
            /\ \A i \in 1..2 : \E j \in 1..Len(call.trail) : call.trail[j].file = pair[i]
            /\ UpApplied(call.db, pair[1]) /\ UpApplied(call.db, pair[2])

\* C25's case: of two files of version 1 the first was committed and the
\* second's tracking insert failed on the primary key, no failure having
\* been injected.
C25_Witness ==
    /\ pc = "return"
    /\ faults = 0
    /\ Len(call.trail) = 2
    /\ call.trail[1].kind = "applied"
    /\ call.trail[2].kind = "failed"
    /\ call.trail[1].file.version = call.trail[2].file.version
    /\ call.raised_at = "insert"
    /\ UpApplied(call.db, call.trail[1].file)

\* C27: when migrate_all or rollback_all has processed its last database,
\* the run's outcome (the closing banner and the process's exit status) is
\* success exactly when every *_database call of the run returned True.
C27_AggregateOutcome ==
    (pc = "complete" /\ args.command \in {"migrate", "rollback"}) =>
        LET rets == [i \in 1..Len(results) |-> results[i].ret]
            success ==
                /\ ExitStatus(args.command, rets) = 0
                /\ ClosingBanner(args.command, rets)
                       \in {"MIGRATION COMPLETE", "ROLLBACK COMPLETE"}
        IN  success <=> \A i \in 1..Len(rets) : rets[i]

\* C28: with no two files of one version, every DOWN section whose SQL a
\* database holds committed is of a migration that has its 'up' row in that
\* database's tracking table.
C28_RollbackOnlyOfApplied ==
    Twins = {} =>
        \A d \in DbNames : \A i \in 1..Len(db[d].effects) :
            db[d].effects[i].direction = "down" =>
                Holds(db[d].rows, Row(db[d].effects[i].file, "up"))

\* The tracking table of d has a 'down' row of f's version among its first
\* n rows.
RolledBack(d, f, n) ==
    \E i \in 1..n : db[d].rows[i] = Row(f, "down")

\* C29: with no two files of one version and no failure injected: a
\* migrate_database without target version, on a database where a file
\* applicable to it was applied and then rolled back, selects that file
\* again; and a rollback_database of one step on a database that already
\* holds a rollback, every file having a DOWN section, returns True.
C29_RoundTrip ==
    (Twins = {} /\ faults = 0 /\ pc = "return" /\ ~args.dry_run /\ IsNone(args.to)) =>
        /\ args.command = "migrate" =>
              \A f \in files :
                  (RolledBack(call.db, f, call.rows_before) /\ ~ScopeSkipped(f, call.db)) =>
                      /\ Holds(call.selected, f)
                      /\ Holds(call.trail, Attempt(f, "up", "applied"))
        /\ (args.command = "rollback" /\ args.steps = 1
              /\ (\A f \in files : f.down)
              /\ \E f \in files : RolledBack(call.db, f, call.rows_before)) =>
              call.ret

\* C26: every migrate_database and rollback_database call of a run that got
\* as far as selecting its migrations selected them from the migrations
\* directory as the run's first database saw it, whatever was added to or
\* removed from the directory since.
C26_SameSetForEveryDatabase ==
    (InCall /\ args.command \in {"migrate", "rollback"} /\ call.report # "dberror") =>
        LET loaded == discover_migrations(snapshot)
        IN  call.selected =
                IF args.command = "migrate"
                THEN PendingUp(loaded, call.current_version, args.to)
                ELSE ToRollback(loaded, call.current_version, Val(call.target))

\* The committed forward SQL of version v in the host database.
UpEffects(v) ==
    {i \in 1..Len(db[HostDb].effects) :
        db[HostDb].effects[i].direction = "up" /\ db[HostDb].effects[i].file.version = v}

\* C30: whatever the interleaving of two concurrent migrate_database calls
\* on one database, the forward SQL of each version is committed there at
\* most once, always together with its tracking row; the database holds
\* exactly what the two runners committed; and a runner whose insert failed
\* on the primary key has rolled back its SQL with it, has committed nothing
\* of that file and has returned False.
C30_AtMostOnceUnderConcurrency ==
    /\ \A v \in 1..MaxVersion : Cardinality(UpEffects(v)) <= 1
    /\ EffectsMatchRows(db[HostDb])
    /\ Len(db[HostDb].effects) = Len(workers["r1"].applied) + Len(workers["r2"].applied)
    /\ \A r \in Runners :
           /\ \A i \in 1..Len(workers[r].applied) :
                  Holds(db[HostDb].effects, Effect(workers[r].applied[i], "up"))
           /\ workers[r].raised_at = "insert" =>
                  /\ workers[r].pc = "done" /\ ~workers[r].ret
                  /\ workers[r].txn_effects = <<>> /\ workers[r].txn_rows = <<>>

\* C30's case: both runners read version 0 and ran the SQL of the same
\* version; one committed it, and the other's insert then failed on the
\* primary key.
C30_Witness ==
    \E r \in Runners, o \in Runners :
        /\ r # o
        /\ workers[r].raised_at = "insert"
        /\ workers[r].applied = <<>>
        /\ workers[r].current_version = 0
        /\ workers[o].current_version = 0
        /\ workers[o].applied # <<>>
        /\ Cardinality(UpEffects(workers[o].applied[1].version)) = 1

\* The versions of the 'up' rows of database d, in the order of insertion.
UpRowVersions(d) ==
    LET ups == SelectSeq(db[d].rows, LAMBDA r : r.direction = "up")
    IN  [i \in 1..Len(ups) |-> ups[i].version]

\* A migrate_database call without target version has returned True and
\* holds an 'up' row for every file its scope check does not skip.
Complete ==
    \A f \in files : ~ScopeSkipped(f, call.db) => Holds(db[call.db].rows, Row(f, "up"))

C32_StatusConverges ==
    (pc = "return" /\ args.command = "status" /\ call.report = "status" /\ faults = 0
        /\ \A d \in {e \in DbNames : e = HostDb \/ IsTenantDb(e)} :
               (last[d].migrated \/ Holds(Dbs(results), d))
        /\ last[call.db].migrated) =>
        call.pending_count = 0

\* C33: find_db_files lists no file twice and no file of an excluded
\* directory; so when main has returned after a confirmed cleanup in which
\* os.remove failed for no file that was there, it has removed as many files
\* as it listed.
C33_EachFileFoundOnce ==
    LET found == cleaner.db_files
        permitted ==
            \A i \in 1..Len(cleaner.log) :
                cleaner.log[i].kind = "failed" =>
                    \E k \in 1..(i - 1) : /\ cleaner.log[k].kind = "removed"
                                          /\ cleaner.log[k].path.file = cleaner.log[i].path.file
    IN  /\ \A i \in 1..Len(found), j \in 1..Len(found) :
               i # j => found[i].file # found[j].file
        /\ \A i \in 1..Len(found) :
               found[i].file.dir \notin {".git", "node_modules", "dist", "build", ".venv", "venv"}
        /\ (cleaner.pc = "done" /\ cleaner.log # <<>> /\ permitted) =>
               cleaner.removed_count = Len(found)

====
